---- MODULE Spec2Model ----
(***************************************************************************)
(* Verification model of the pipeline execution core.                      *)
(*                                                                         *)
(*  - TransformWindowPartitionScatter (event / process / finish) together  *)
(*    with its one input port and its M output ports, the scheduler that   *)
(*    polls it, the upstream producer and the downstream consumers.        *)
(*  - The hash join as PipelineBuilder wires it: barrier sizes, attached   *)
(*    build and probe processors, and the workers that use the barriers.   *)
(***************************************************************************)
EXTENDS Integers, Naturals, Sequences, FiniteSets, Bags, TLC

\* ------------------------------------------------------------------ bounds
\* Largest partition count K tried (num_partitions).
MaxK == 3
\* Largest channel count M tried (num_processors).
MaxM == 2
\* Key values of a row are 0..MaxKey.
MaxKey == 1
\* Longest input batch, in rows.
MaxRows == 2
\* Number of batches (data or error) the upstream produces at most.
MaxBatches == 2
\* Largest output count of the build-side pipeline (build workers N).
MaxBuild == 3
\* Largest output count of the probe-side pipeline (probe workers M).
MaxProbe == 2
\* Number of spill partitions of a hash join.
SpillPartitions == 2
\* Number of staged files of a copy plan at most.
MaxFiles == 2
\* Last byte position of the object merge_io_read reads from.
MaxPos == 3
\* Number of raw ranges of a merge_io_read call at most.
MaxRanges == 2
\* Largest column id of a raw range.
MaxColumnId == 1
\* Largest max_storage_io_requests_merge_gap setting.
MaxGap == 2
\* Largest max_storage_io_requests_page_size setting.
MaxPage == 3
MaxBloomKeys == 3
MaxBloomValue == 1
MaxSeed == 2
MaxHashRows == 3
MaxWideKey == 3
MaxLinked == 2
MaxSources == 2
\* Number of copied files handed to build_upsert_copied_files_to_meta_req at most.
MaxCopied == 2
\* Number of fields of a source schema, and of constant columns, at most.
MaxFields == 2
MaxConsts == 1
\* Number of group columns, and of rows, of a build_keys call at most.
MaxGroupColumns == 3
MaxKeyRows == 2

\* ------------------------------------------------------- scatter operator
VARIABLES
    num_partitions,      \* K
    num_processors,      \* M
    is_initialized,
    input_port,          \* the InputPort, shared with the upstream
    output_ports,        \* channel -> OutputPort, shared with the downstream
    input_data_blocks,   \* VecDeque<DataBlock>
    output_data_blocks,  \* channel -> VecDeque<DataBlock>
    pc,                  \* scheduler position: "event", "process", "failed",
                         \* "aborted"
    last_call,           \* what the last event() call observed, did and returned
    sent,                \* number of batches the upstream has pushed
    pulled_rows,         \* rows pulled from the input port so far
    pushed_rows,         \* rows pushed to output ports so far
    pushed_ids,          \* channel -> ids of the input batches of the pushed batches
    delivered_ids,       \* channel -> the same, as pulled by the downstream
    placed,              \* {<<key, partition, channel>>} of every row scattered
    consumer_finished,   \* the channels whose consumer finished the port
    errors_raised,       \* where the errors met by the operator came up
    reported             \* top-level errors the scheduler reported to the caller

scatter_vars == <<num_partitions, num_processors, is_initialized, input_port,
                  output_ports, input_data_blocks, output_data_blocks, pc,
                  last_call, sent, pulled_rows, pushed_rows, pushed_ids,
                  delivered_ids, placed, consumer_finished, errors_raised,
                  reported>>

\* ---------------------------------------------------------------- hash join
VARIABLES
    join,            \* the HashJoin plan and the settings build_join reads
    join_pc,         \* "plan" before build_join has run, "run" after it
    barriers,        \* the Barrier instances created so far, in creation order
    build_state,     \* HashJoinBuildState: its barrier and restore_barrier
    probe_state,     \* HashJoinProbeState: its barrier and restore_barrier
    spill_coordinator, \* BuildSpillCoordinator: participants, spill decided
    build_pipe,      \* what expand_build_side_pipeline put on the build pipeline
    builder_in,      \* what else build_join reads: the build side's source
                     \* pipelines, the probe schema and the probe projections
    pipelines,       \* self.pipelines: the linked pipelines, in push order
    index,           \* self.index: Option<usize>
    probe_data_fields, \* self.probe_data_fields: Option<Vec<DataField>>
    build_sinks,     \* the TransformHashJoinBuild processors attached
    probe_transforms,\* the TransformHashJoinProbe processors attached
    row_store,       \* the build rows <<worker, key>> kept in memory
    hash_table,      \* the rows the hash table was built over
    phase,           \* "Building", "Built", "Probing", "Done"
    in_memory,       \* the spill partitions whose rows are in memory
    spilled,         \* the spill partitions written to external storage
    restoring,       \* the spill partitions being read back
    spilled_rows,    \* the build rows written to external storage
    restored,        \* the partitions restored so far, in order
    probe_buffered,  \* the probe rows set aside for a spilled partition
    probe_rows,      \* every probe row <<worker, key>> read so far
    probed_in,       \* the states partitions were in when they were probed
    join_output      \* the bag of joined rows <<build row, probe row>> emitted

spill_vars == <<in_memory, spilled, restoring, spilled_rows, restored,
                probe_buffered>>

builder_vars == <<join, join_pc, build_state, probe_state, build_pipe,
                  builder_in, pipelines, index, probe_data_fields>>

join_vars == <<builder_vars, barriers, spill_coordinator, build_sinks,
               probe_transforms, row_store, hash_table, phase, spill_vars,
               probe_rows, probed_in, join_output>>

\* --------------------------------------------------------------------- copy
VARIABLES
    copy_plan,       \* the staged files and the options of the copy plan
    copy_pc,         \* "plan", "running", "succeeded", "errored", "finished"
    upsert_req,      \* the UpsertTableCopiedFileReq built, if any
    on_finished,     \* whether the on-finished callback is set on the pipeline
    committed,       \* whether the commit stage of the pipeline has completed
    signals,         \* the completion signals the callback has received
    purged           \* the staged files removed

copy_vars == <<copy_plan, copy_pc, upsert_req, on_finished, committed, signals,
               purged>>

\* ------------------------------------------------------------ merge_io_read
VARIABLES
    read_req,        \* raw_ranges and the two settings of a merge_io_read call
    read_pc,         \* "start", "reading", "done"
    merged_ranges,   \* range_merger.ranges()
    chunks,          \* per merged read: its state and its (index, chunk)
    completed,       \* the merged reads in the order they completed
    read_result      \* what merge_io_read returned

read_vars == <<read_req, read_pc, merged_ranges, chunks, completed, read_result>>

\* ------------------------------------------------------------- Fuse8Bloom
VARIABLES
    filter,          \* the Fuse8Bloom: digests added, seed, fingerprint array
    filter_pc,       \* "adding", "built", "failed" ("idle" when unused)
    filter_added,    \* history: the keys handed to add_key and add_keys
    filter_query     \* the last contains call: its key and its answer

bloom_vars == <<filter, filter_pc, filter_added, filter_query>>

\* ---------------------------------------------------------------- siphash
VARIABLES
    hash_case,       \* the input column of a siphash call: its array type, values
    hash_pc,         \* "start", "done" ("idle" when unused)
    hash_result      \* the UInt64 column eval returned

hash_vars == <<hash_case, hash_pc, hash_result>>

\* ------------------------------------------- scatter indices of one batch
VARIABLES
    index_rows,      \* the key of every row of the batch process() scatters
    index_pc,        \* "start", "done" ("idle" when unused)
    index_result     \* the indices computed and the blocks DataBlock::scatter made

index_vars == <<index_rows, index_pc, index_result>>

\* ------------------------------- build_upsert_copied_files_to_meta_req
VARIABLES
    upsert_case,     \* the arguments of a call: copied_files, purge, force
    upsert_pc,       \* "start", "done" ("idle" when unused)
    upsert_out       \* the Option<UpsertTableCopiedFileReq> returned

upsert_vars == <<upsert_case, upsert_pc, upsert_out>>

\* ------------------------------------------- build_append_data_pipeline
VARIABLES
    append_plan,     \* source_schema and what the call takes from the plan
    append_pc,       \* "start", "done" ("idle" when unused)
    append_stages,   \* the stages put on main_pipeline, in order
    append_ret       \* the insert_overwrite_option returned

append_vars == <<append_plan, append_pc, append_stages, append_ret>>

\* ------------------------------------------------- HashMethodFixedKeys
VARIABLES
    keys_case,       \* a call: the key width (step), the rows, the group columns
    keys_pc,         \* "start", "built", "crashed", "done", "panicked"
                     \* ("idle" when unused)
    group_keys,      \* the bytes of the Vec<T::Native> build_keys returned
    de_columns       \* the columns de_group_columns returned

keys_vars == <<keys_case, keys_pc, group_keys, de_columns>>

more_vars == <<upsert_vars, append_vars, keys_vars>>

aux_vars == <<bloom_vars, hash_vars, index_vars, more_vars>>

vars == <<scatter_vars, join_vars, copy_vars, read_vars, aux_vars>>

Keys == 0 .. MaxKey
Channels == 0 .. (num_processors - 1)
Partitions == 0 .. (num_partitions - 1)

RECURSIVE SeqsUpTo(_, _)
SeqsUpTo(S, n) ==
    IF n = 0 THEN {<<>>}
    ELSE LET shorter == SeqsUpTo(S, n - 1)
         IN  shorter \cup {Append(s, x) : s \in {t \in shorter : Len(t) = n - 1}, x \in S}

\* The row lists an input batch may carry (a row is its key value).
RowLists == SeqsUpTo(Keys, MaxRows)

\* ------------------------------------------------------------------- ports
\* A port: the consumer's demand flag, at most one in-flight batch, and the
\* finished flag.  Idle = no demand and no batch; NeedData = demand and no
\* batch; HasData = a batch; Finished = the flag.
PortCreate == [need |-> FALSE, data |-> <<>>, finished |-> FALSE]

is_finished(p) == p.finished
can_push(p) == p.need /\ p.data = <<>>
has_data(p) == p.data # <<>>
set_need_data(p) == [p EXCEPT !.need = TRUE]
push_data(p, b) == [p EXCEPT !.data = Append(@, b)]
pull_data(p) == [p EXCEPT !.data = Tail(@), !.need = FALSE]
port_finish(p) == [p EXCEPT !.finished = TRUE]

\* ----------------------------------------------------------------- process
\* group_hash_columns_slice: a fixed 64-bit hash of the key columns of a row.
GroupHash(key) == (key * 40507 + 7) % 65536

\* `as u8`: the value narrowed to 8 bits.
AsU8(n) == n % 256

\* Variant: the row's position in the batch is mixed into its index.
ScatterIndices_ByPosition(rows) ==
    [i \in 1 .. Len(rows) |-> AsU8((GroupHash(rows[i]) + i) % num_partitions)]

\* Variant: the rows pulled so far are mixed into the index of a row.
ScatterIndices_ByHistory(rows) ==
    [i \in 1 .. Len(rows) |->
        AsU8((GroupHash(rows[i]) + pulled_rows) % num_partitions)]

\* process(), lines 163-166: the partition index of every row.
ScatterIndices(rows) ==
    [i \in 1 .. Len(rows) |-> AsU8(GroupHash(rows[i]) % num_partitions)]

RECURSIVE TakeRows(_, _, _, _)
TakeRows(rows, indices, p, i) ==
    IF i > Len(rows) THEN <<>>
    ELSE IF indices[i] = p
         THEN <<rows[i]>> \o TakeRows(rows, indices, p, i + 1)
         ELSE TakeRows(rows, indices, p, i + 1)

\* DataBlock::scatter: scatter_size blocks, block p holding the rows whose
\* index is p, in input order.
DataBlockScatter(rows, indices, scatter_size) ==
    [p \in 0 .. (scatter_size - 1) |-> TakeRows(rows, indices, p, 1)]

\* Variant: processor c takes partition c only, as if K = M.
PartsOf_OnePerChannel(scatter_blocks, c, p) ==
    IF c < num_partitions
    THEN <<[partition_id |-> c, rows |-> scatter_blocks[c]]>>
    ELSE <<>>

RECURSIVE PartsOf_Shifted(_, _, _)
\* Variant: partition p goes to processor (p + 1) % M.
PartsOf_Shifted(scatter_blocks, c, p) ==
    IF p >= num_partitions THEN <<>>
    ELSE IF (p + 1) % num_processors = c
         THEN <<[partition_id |-> p, rows |-> scatter_blocks[p]]>>
                  \o PartsOf_Shifted(scatter_blocks, c, p + 1)
         ELSE PartsOf_Shifted(scatter_blocks, c, p + 1)

RECURSIVE PartsOf(_, _, _)
\* process(), lines 170-174: the (partition_id, data_block) pairs of one
\* processor, in the order of enumerate().
PartsOf(scatter_blocks, c, p) ==
    IF p >= num_partitions THEN <<>>
    ELSE IF p % num_processors = c
         THEN <<[partition_id |-> p, rows |-> scatter_blocks[p]]>>
                  \o PartsOf(scatter_blocks, c, p + 1)
         ELSE PartsOf(scatter_blocks, c, p + 1)

\* process(), lines 176-180: the meta block enqueued for processor c.
MetaBlock(batch, c) ==
    LET scatter_blocks ==
            DataBlockScatter(batch.rows, ScatterIndices(batch.rows), num_partitions)
    IN  [id |-> batch.id, parts |-> PartsOf(scatter_blocks, c, 0)]

RECURSIVE SumRows(_)
SumRows(parts) ==
    IF parts = <<>> THEN 0 ELSE Len(Head(parts).rows) + SumRows(Tail(parts))

BlockRows(block) == SumRows(block.parts)

\* The <<key, partition, channel>> triples of the rows of a block of channel c.
PlacedBy(block, c) ==
    UNION {{<<block.parts[j].rows[i], block.parts[j].partition_id, c>> :
                i \in 1 .. Len(block.parts[j].rows)} : j \in 1 .. Len(block.parts)}

\* Variant: a failed scatter is ignored and the batch dropped.
ScatterResult_Swallowed(data_block) == "Ok"

\* process(), line 167: DataBlock::scatter(..)? fails on a batch it cannot
\* scatter, and the error is returned from process().
ScatterResult(data_block) == IF data_block.bad THEN "Error" ELSE "Ok"

\* process(), lines 139-184.
Process ==
    /\ pc = "process"
    /\ IF input_data_blocks # <<>>
       THEN LET data_block == Head(input_data_blocks)
            IN  /\ input_data_blocks' = Tail(input_data_blocks)
                /\ errors_raised' =
                       IF data_block.bad THEN Append(errors_raised, "process")
                       ELSE errors_raised
                /\ pc' = IF ScatterResult(data_block) = "Error" THEN "failed"
                         ELSE "event"
                /\ IF data_block.bad
                   THEN UNCHANGED <<output_data_blocks, placed>>
                   ELSE /\ output_data_blocks' =
                              [c \in Channels |->
                                  Append(output_data_blocks[c],
                                         MetaBlock(data_block, c))]
                        /\ placed' = placed \cup
                              UNION {PlacedBy(MetaBlock(data_block, c), c) :
                                        c \in Channels}
       ELSE /\ pc' = "event"
            /\ UNCHANGED <<input_data_blocks, output_data_blocks, placed,
                           errors_raised>>
    /\ UNCHANGED <<num_partitions, num_processors, is_initialized, input_port,
                   output_ports, last_call, sent, pulled_rows, pushed_rows,
                   pushed_ids, delivered_ids, consumer_finished>>
    /\ UNCHANGED <<reported, join_vars, copy_vars,
                   read_vars, aux_vars>>

\* ------------------------------------------------------------------- event
\* What event() reads of its ports and buffers when it is called.
Observed ==
    [initialized  |-> is_initialized,
     out_finished |-> {c \in Channels : is_finished(output_ports[c])},
     out_can_push |-> {c \in Channels : can_push(output_ports[c])},
     queued       |-> {c \in Channels : output_data_blocks[c] # <<>>},
     in_has_data  |-> has_data(input_port),
     in_finished  |-> is_finished(input_port),
     buffered     |-> input_data_blocks # <<>>]

\* Variant: the loop does not skip finished ports.
LiveOutputs_All == Channels

\* event(), lines 100-115: the ports the loop considers (not finished).
LiveOutputs == {c \in Channels : ~is_finished(output_ports[c])}

\* Variant: every unfinished port counts as unable to take a push.
BlockedOutputs_AllLive == LiveOutputs

\* Variant: can_push() is not consulted.
BlockedOutputs_None == {}

\* event(), lines 106-109: the considered ports that cannot take a batch.
BlockedOutputs == {c \in LiveOutputs : ~can_push(output_ports[c])}

\* event(), lines 111-114: the ports a queued batch is pushed to.
PushedOutputs ==
    {c \in LiveOutputs \ BlockedOutputs : output_data_blocks[c] # <<>>}

\* Variant: the loop never finds all outputs finished.
all_output_finished_Never == FALSE

\* event(), lines 98-104.
all_output_finished == LiveOutputs = {}

\* Variant: need_consume is not set after a push.
need_consume_OnlyBlocked == BlockedOutputs # {}

\* Variant: need_consume is set for any non-empty queue, finished ports included.
need_consume_AnyQueued ==
    BlockedOutputs # {} \/ \E c \in Channels : output_data_blocks[c] # <<>>

\* Variant: need_consume is never set.
need_consume_Never == FALSE

\* Variant: a port that cannot be pushed to does not set need_consume.
need_consume_OnlyPushed == PushedOutputs # {}

\* event(), lines 99, 107, 113.
need_consume == BlockedOutputs # {} \/ PushedOutputs # {}

\* The ports and queues after the loop of lines 100-115.
PortsAfterPush ==
    [c \in Channels |->
        IF c \in PushedOutputs
        THEN push_data(output_ports[c], Head(output_data_blocks[c]))
        ELSE output_ports[c]]

\* Variant: front() in place of pop_front(): the batch stays queued.
QueuesAfterPush_NoPop == output_data_blocks

\* event(), line 111: pop_front of the queues that were pushed from.
QueuesAfterPush ==
    [c \in Channels |->
        IF c \in PushedOutputs THEN Tail(output_data_blocks[c])
        ELSE output_data_blocks[c]]

\* finish(), lines 66-72: the input port and every output port are finished.
FinishInput(p) == port_finish(p)

\* Variant: finish() leaves the output ports alone.
FinishOutputs_None(ports) == ports

FinishOutputs(ports) == [c \in Channels |-> port_finish(ports[c])]

\* Variant: an error batch is dropped and the call goes on as with data.
PullResult_Swallowed(data_block) == "Sync"

\* event(), line 126: pull_data().unwrap()? returns the error of an error
\* batch from event().
PullResult(data_block) == IF data_block.err THEN "Error" ELSE "Sync"

\* Variant: the first call goes through the loop like any other call.
FirstCall_LikeAnyOther == FALSE

\* event(), line 92: the call that finds is_initialized false.
FirstCall == ~is_initialized

\* event(), lines 91-137, as a function of the state: the event returned and
\* the fields and ports as the call leaves them.
EventResult ==
    IF FirstCall
    THEN [ret |-> "NeedData", init |-> TRUE, inp |-> set_need_data(input_port),
          outs |-> output_ports, queues |-> output_data_blocks,
          blocks |-> input_data_blocks, pushed |-> {}, pulled |-> <<>>]
    ELSE IF all_output_finished
    THEN [ret |-> "Finished", init |-> TRUE, inp |-> FinishInput(input_port),
          outs |-> FinishOutputs(PortsAfterPush), queues |-> QueuesAfterPush,
          blocks |-> input_data_blocks, pushed |-> PushedOutputs, pulled |-> <<>>]
    ELSE IF need_consume
    THEN [ret |-> "NeedConsume", init |-> TRUE, inp |-> input_port,
          outs |-> PortsAfterPush, queues |-> QueuesAfterPush,
          blocks |-> input_data_blocks, pushed |-> PushedOutputs, pulled |-> <<>>]
    ELSE IF has_data(input_port)
    THEN LET data_block == Head(input_port.data)
         IN  [ret |-> PullResult(data_block), init |-> TRUE,
              inp |-> pull_data(input_port),
              outs |-> PortsAfterPush, queues |-> QueuesAfterPush,
              blocks |-> IF data_block.err THEN input_data_blocks
                         ELSE Append(input_data_blocks, data_block),
              pushed |-> PushedOutputs, pulled |-> <<data_block>>]
    ELSE IF is_finished(input_port)
    THEN [ret |-> "Finished", init |-> TRUE, inp |-> FinishInput(input_port),
          outs |-> FinishOutputs(PortsAfterPush), queues |-> QueuesAfterPush,
          blocks |-> input_data_blocks, pushed |-> PushedOutputs, pulled |-> <<>>]
    ELSE [ret |-> "NeedData", init |-> TRUE, inp |-> set_need_data(input_port),
          outs |-> PortsAfterPush, queues |-> QueuesAfterPush,
          blocks |-> input_data_blocks, pushed |-> PushedOutputs, pulled |-> <<>>]

RECURSIVE SumOver(_, _)
\* Rows of the batches at the head of the queues of the channels in S.
SumOver(S, queues) ==
    IF S = {} THEN 0
    ELSE LET c == CHOOSE x \in S : TRUE
         IN  BlockRows(Head(queues[c])) + SumOver(S \ {c}, queues)

\* The scheduler polls the processor: one call of event().
Event ==
    /\ pc = "event"
    /\ LET r == EventResult
           obs == Observed
       IN  /\ is_initialized' = r.init
           /\ input_port' = r.inp
           /\ output_ports' = r.outs
           /\ output_data_blocks' = r.queues
           /\ input_data_blocks' = r.blocks
           /\ pc' = CASE r.ret = "Sync" -> "process"
                      [] r.ret = "Error" -> "failed"
                      [] OTHER -> "event"
           /\ pulled_rows' = pulled_rows +
                  (IF r.pulled # <<>> /\ ~r.pulled[1].err
                   THEN Len(r.pulled[1].rows) ELSE 0)
           /\ pushed_rows' = pushed_rows + SumOver(r.pushed, output_data_blocks)
           /\ errors_raised' =
                  IF r.pulled # <<>> /\ r.pulled[1].err
                  THEN Append(errors_raised, "event") ELSE errors_raised
           /\ pushed_ids' =
                  [c \in Channels |->
                      IF c \in r.pushed
                      THEN Append(pushed_ids[c], Head(output_data_blocks[c]).id)
                      ELSE pushed_ids[c]]
           /\ last_call' =
                  [ret |-> r.ret, obs |-> obs, pushed |-> r.pushed,
                   pulled |-> r.pulled # <<>>,
                   effect |-> <<r.init, r.inp, r.outs, r.queues, r.blocks>> #
                              <<is_initialized, input_port, output_ports,
                                output_data_blocks, input_data_blocks>>]
    /\ UNCHANGED <<num_partitions, num_processors, sent, delivered_ids, placed,
                   consumer_finished>>
    /\ UNCHANGED <<reported, join_vars, copy_vars,
                   read_vars, aux_vars>>

\* ------------------------------------------------------------- environment
\* The upstream pushes its next batch, rows or an error, into the input port.
UpstreamPush ==
    /\ sent < MaxBatches
    /\ ~is_finished(input_port)
    /\ can_push(input_port)
    /\ \E rows \in RowLists, err \in BOOLEAN, bad \in BOOLEAN :
          /\ err => (rows = <<>> /\ ~bad)
          /\ input_port' = push_data(input_port,
                               [id |-> sent + 1, rows |-> rows, err |-> err,
                                bad |-> bad])
    /\ sent' = sent + 1
    /\ UNCHANGED <<num_partitions, num_processors, is_initialized, output_ports,
                   input_data_blocks, output_data_blocks, pc, last_call,
                   pulled_rows, pushed_rows, pushed_ids, delivered_ids, placed,
                   consumer_finished>>
    /\ UNCHANGED <<errors_raised, reported, join_vars, copy_vars,
                   read_vars, aux_vars>>

\* The upstream finishes the input port: no more data will arrive.
UpstreamFinish ==
    /\ ~is_finished(input_port)
    /\ input_port' = port_finish(input_port)
    /\ UNCHANGED <<num_partitions, num_processors, is_initialized, output_ports,
                   input_data_blocks, output_data_blocks, pc, last_call, sent,
                   pulled_rows, pushed_rows, pushed_ids, delivered_ids, placed,
                   consumer_finished>>
    /\ UNCHANGED <<errors_raised, reported, join_vars, copy_vars,
                   read_vars, aux_vars>>

\* The consumer of channel c asks for data.
DownstreamNeedData(c) ==
    /\ ~is_finished(output_ports[c])
    /\ ~output_ports[c].need
    /\ ~has_data(output_ports[c])
    /\ output_ports' = [output_ports EXCEPT ![c] = set_need_data(@)]
    /\ UNCHANGED <<num_partitions, num_processors, is_initialized, input_port,
                   input_data_blocks, output_data_blocks, pc, last_call, sent,
                   pulled_rows, pushed_rows, pushed_ids, delivered_ids, placed,
                   consumer_finished>>
    /\ UNCHANGED <<errors_raised, reported, join_vars, copy_vars,
                   read_vars, aux_vars>>

\* The consumer of channel c takes the batch in flight.
DownstreamPull(c) ==
    /\ ~is_finished(output_ports[c])
    /\ has_data(output_ports[c])
    /\ delivered_ids' =
           [delivered_ids EXCEPT ![c] = Append(@, Head(output_ports[c].data).id)]
    /\ output_ports' = [output_ports EXCEPT ![c] = pull_data(@)]
    /\ UNCHANGED <<num_partitions, num_processors, is_initialized, input_port,
                   input_data_blocks, output_data_blocks, pc, last_call, sent,
                   pulled_rows, pushed_rows, pushed_ids, placed, consumer_finished>>
    /\ UNCHANGED <<errors_raised, reported, join_vars, copy_vars,
                   read_vars, aux_vars>>

\* The consumer of channel c finishes its port: no more consumption.
DownstreamFinish(c) ==
    /\ ~is_finished(output_ports[c])
    /\ output_ports' = [output_ports EXCEPT ![c] = port_finish(@)]
    /\ consumer_finished' = consumer_finished \cup {c}
    /\ UNCHANGED <<num_partitions, num_processors, is_initialized, input_port,
                   input_data_blocks, output_data_blocks, pc, last_call, sent,
                   pulled_rows, pushed_rows, pushed_ids, delivered_ids, placed>>
    /\ UNCHANGED <<errors_raised, reported, join_vars, copy_vars,
                   read_vars, aux_vars>>

\* -------------------------------------------------- Fuse8Bloom: the filter
\* A filter over 3 blocks of BlockLength slots, each slot a FingerprintBits-bit
\* fingerprint (8 bits in Fuse8, 2 here).
BlockLength == 2
FingerprintSpace == 4
DigestSpace == 4096
FilterSlots == 0 .. (3 * BlockLength - 1)

BloomTypes == {"u64", "i64", "bool", "string"}
BloomKeys ==
    {k \in [type : BloomTypes, value : 0 .. MaxBloomValue] :
        k.type = "bool" => k.value < 2}

\* The bytes a key is hashed over: fixed-width little endian for the numbers,
\* one byte for a bool, the characters for a string.
KeyBytes(key) ==
    CASE key.type = "u64" -> <<key.value, 0, 0, 0, 0, 0, 0, 0>>
      [] key.type = "i64" -> <<key.value, 0, 0, 0, 0, 0, 0, 0>>
      [] key.type = "bool" -> <<key.value>>
      [] OTHER -> <<49 + key.value, 50, 51>>

RECURSIVE HashBytes(_, _)
HashBytes(bytes, h) ==
    IF bytes = <<>> THEN h
    ELSE HashBytes(Tail(bytes), (h * 31 + Head(bytes) + 1) % DigestSpace)

\* The digest of a key: the hash of its bytes.
KeyDigest(key) == HashBytes(KeyBytes(key), 7)

\* The seeded mix of a digest: its high bits give the slots, its low bits the
\* fingerprint.
Mix(digest, seed) == ((digest + seed * 977) * 2603 + 13) % DigestSpace

SlotsOf(digest, seed) ==
    LET m == Mix(digest, seed) \div 64
    IN  <<m % BlockLength,
          BlockLength + ((m \div BlockLength) % BlockLength),
          2 * BlockLength + ((m \div (BlockLength * BlockLength)) % BlockLength)>>

Fingerprint(digest, seed) == Mix(digest, seed) % FingerprintSpace

\* Bitwise exclusive or of two fingerprints.
RECURSIVE Xor(_, _)
Xor(a, b) ==
    IF a = 0 /\ b = 0 THEN 0
    ELSE ((a + b) % 2) + 2 * Xor(a \div 2, b \div 2)

SlotSet(digest, seed) == {SlotsOf(digest, seed)[i] : i \in 1 .. 3}

\* What contains computes for a digest from the fingerprint array.
Probe(fingerprints, digest, seed) ==
    LET h == SlotsOf(digest, seed)
    IN  Xor(fingerprints[h[1]], Xor(fingerprints[h[2]], fingerprints[h[3]]))

\* Peeling: repeatedly take a slot that exactly one remaining digest maps to
\* and stack the (digest, slot) pair; fails when no such slot is left.
RECURSIVE Peel(_, _, _)
Peel(digests, seed, stack) ==
    IF digests = {} THEN [ok |-> TRUE, stack |-> stack]
    ELSE LET alone == {x \in digests \X FilterSlots :
                          /\ x[2] \in SlotSet(x[1], seed)
                          /\ \A d \in digests \ {x[1]} :
                                 x[2] \notin SlotSet(d, seed)}
         IN  IF alone = {} THEN [ok |-> FALSE, stack |-> stack]
             ELSE LET x == CHOOSE y \in alone :
                               \A z \in alone :
                                   \/ y[2] < z[2]
                                   \/ (y[2] = z[2] /\ y[1] <= z[1])
                  IN  Peel(digests \ {x[1]}, seed, Append(stack, x))

\* One assignment: the slot the digest was peeled at takes the value that
\* makes the three slots of the digest xor to its fingerprint.
AssignOne(fingerprints, x, seed) ==
    [fingerprints EXCEPT
        ![x[2]] = Xor(Xor(@, Probe(fingerprints, x[1], seed)),
                      Fingerprint(x[1], seed))]

\* Assignment in the order the pairs were peeled.
RECURSIVE Assign_PeelOrder(_, _, _)
Assign_PeelOrder(stack, fingerprints, seed) ==
    IF stack = <<>> THEN fingerprints
    ELSE Assign_PeelOrder(Tail(stack),
                          AssignOne(fingerprints, Head(stack), seed), seed)

\* Assignment in the reverse of the order the pairs were peeled.
RECURSIVE Assign(_, _, _)
Assign(stack, fingerprints, seed) ==
    IF stack = <<>> THEN fingerprints
    ELSE Assign(SubSeq(stack, 1, Len(stack) - 1),
                AssignOne(fingerprints, stack[Len(stack)], seed), seed)

EmptyFingerprints == [s \in FilterSlots |-> 0]

\* Fuse8Bloom::create: no digest, nothing built.
Fuse8BloomCreate ==
    [digests |-> <<>>, seed |-> 0, fingerprints |-> EmptyFingerprints]

\* build over the distinct digests: peel with seed 0, 1, ... until it works.
RECURSIVE BuildWithSeed(_, _)
BuildWithSeed(digests, seed) ==
    LET peeled == Peel(digests, seed, <<>>)
    IN  IF peeled.ok
        THEN [ok |-> TRUE, seed |-> seed,
              fingerprints |-> Assign(peeled.stack, EmptyFingerprints, seed)]
        ELSE IF seed < MaxSeed THEN BuildWithSeed(digests, seed + 1)
        ELSE [ok |-> FALSE, seed |-> seed, fingerprints |-> EmptyFingerprints]

\* contains: the key's digest probes to its own fingerprint.
contains(f, key) ==
    Probe(f.fingerprints, KeyDigest(key), f.seed)
        = Fingerprint(KeyDigest(key), f.seed)

\* filter.add_key(&key)
add_key(key) ==
    /\ filter_pc = "adding"
    /\ Len(filter_added) < MaxBloomKeys
    /\ filter' = [filter EXCEPT !.digests = Append(@, KeyDigest(key))]
    /\ filter_added' = Append(filter_added, key)
    /\ UNCHANGED <<filter_pc, filter_query>>
    /\ UNCHANGED <<scatter_vars, join_vars, copy_vars, read_vars, hash_vars,
                   index_vars, more_vars>>

\* filter.add_keys(&keys)
add_keys(keys) ==
    /\ filter_pc = "adding"
    /\ Len(keys) > 1
    /\ Len(filter_added) + Len(keys) <= MaxBloomKeys
    /\ filter' = [filter EXCEPT
                     !.digests = @ \o [i \in DOMAIN keys |-> KeyDigest(keys[i])]]
    /\ filter_added' = filter_added \o keys
    /\ UNCHANGED <<filter_pc, filter_query>>
    /\ UNCHANGED <<scatter_vars, join_vars, copy_vars, read_vars, hash_vars,
                   index_vars, more_vars>>

\* filter.build()?
build ==
    /\ filter_pc = "adding"
    /\ LET distinct == {filter.digests[i] : i \in DOMAIN filter.digests}
           built == BuildWithSeed(distinct, 0)
       IN  /\ filter' = [filter EXCEPT !.seed = built.seed,
                                       !.fingerprints = built.fingerprints]
           /\ filter_pc' = IF built.ok THEN "built" ELSE "failed"
    /\ UNCHANGED <<filter_added, filter_query>>
    /\ UNCHANGED <<scatter_vars, join_vars, copy_vars, read_vars, hash_vars,
                   index_vars, more_vars>>

\* filter.contains(&key) on the built filter.
Contains(key) ==
    /\ filter_pc = "built"
    /\ filter_query' = [asked |-> TRUE, key |-> key,
                        answer |-> contains(filter, key)]
    /\ UNCHANGED <<filter, filter_pc, filter_added>>
    /\ UNCHANGED <<scatter_vars, join_vars, copy_vars, read_vars, hash_vars,
                   index_vars, more_vars>>

NoQuery == [asked |-> FALSE, key |-> [type |-> "bool", value |-> 0],
            answer |-> FALSE]

\* No filter is in use: the filter variables while something else runs.
BloomIdle ==
    /\ filter = Fuse8BloomCreate
    /\ filter_pc = "idle"
    /\ filter_added = <<>>
    /\ filter_query = NoQuery

\* ------------------------------------------------------ siphash: the function
\* The array types of the columns siphash is evaluated on.
IntegerLike1 == {"Int8Array", "UInt8Array"}
IntegerLike2 == {"Int16Array", "UInt16Array"}
IntegerLike4 ==
    {"Int32Array", "UInt32Array", "Date32Array", "Time32SecondArray",
     "Time32MillisecondArray", "IntervalYearMonthArray"}
IntegerLike8 ==
    {"Int64Array", "UInt64Array", "Date64Array", "TimestampSecondArray",
     "TimestampMillisecondArray", "TimestampMicrosecondArray",
     "TimestampNanosecondArray", "Time64MicrosecondArray",
     "Time64NanosecondArray", "IntervalDayTimeArray", "DurationSecondArray",
     "DurationMillisecondArray", "DurationMicrosecondArray",
     "DurationNanosecondArray"}
IntegerLike == IntegerLike1 \cup IntegerLike2 \cup IntegerLike4 \cup IntegerLike8
FloatTypes == {"Float32Array", "Float64Array"}
BinaryTypes == {"BinaryArray", "LargeBinaryArray"}
StringTypes == {"StringArray", "LargeStringArray"}
HashTypes == IntegerLike \cup FloatTypes \cup BinaryTypes \cup StringTypes

\* The values of the columns: 1 and 2 (1.0 and 2.0, [1] and [2], "1" and "2").
HashValues == {1, 2}

\* Dates widened to 64 bits before hashing.
ByteWidth_DatesWide(type) ==
    CASE type \in IntegerLike1 -> 1
      [] type \in IntegerLike2 -> 2
      [] type \in (IntegerLike4 \ {"Date32Array"}) \cup {"Float32Array"} -> 4
      [] OTHER -> 8

\* The native width of an integer-like or float type, in bytes.
ByteWidth(type) ==
    CASE type \in IntegerLike1 -> 1
      [] type \in IntegerLike2 -> 2
      [] type \in IntegerLike4 \cup {"Float32Array"} -> 4
      [] OTHER -> 8

\* value as n little-endian bytes (value < 256).
LittleEndian(value, n) == [i \in 1 .. n |-> IF i = 1 THEN value ELSE 0]

\* The IEEE-754 bytes of 1.0 and 2.0, little endian.
FloatBytes(type, value) ==
    IF type = "Float32Array"
    THEN IF value = 1 THEN <<0, 0, 128, 63>> ELSE <<0, 0, 0, 64>>
    ELSE IF value = 1 THEN <<0, 0, 0, 0, 0, 0, 240, 63>>
         ELSE <<0, 0, 0, 0, 0, 0, 0, 64>>

\* The byte representation of a value of a column of the given type.
ValueBytes(type, value) ==
    CASE type \in IntegerLike -> LittleEndian(value, ByteWidth(type))
      [] type \in FloatTypes -> FloatBytes(type, value)
      [] type \in BinaryTypes -> <<value>>
      [] OTHER -> <<48 + value>>

\* siphash of a byte string, on the byte strings the tests pin down.
SipHash(bytes) ==
    CASE bytes = <<1>> -> "4952851536318644461"
      [] bytes = <<2>> -> "7220060526038107403"
      [] bytes = <<1, 0>> -> "10500823559348167161"
      [] bytes = <<2, 0>> -> "4091451155859037844"
      [] bytes = <<1, 0, 0, 0>> -> "1742378985846435984"
      [] bytes = <<2, 0, 0, 0>> -> "16336925911988107921"
      [] bytes = <<1, 0, 0, 0, 0, 0, 0, 0>> -> "2206609067086327257"
      [] bytes = <<2, 0, 0, 0, 0, 0, 0, 0>> -> "11876854719037224982"
      [] bytes = <<0, 0, 128, 63>> -> "729488449357906283"
      [] bytes = <<0, 0, 0, 64>> -> "9872512741335963328"
      [] bytes = <<0, 0, 0, 0, 0, 0, 240, 63>> -> "13833534234735907638"
      [] bytes = <<0, 0, 0, 0, 0, 0, 0, 64>> -> "12773237290464453619"
      [] bytes = <<49>> -> "11582886058036617813"
      [] bytes = <<50>> -> "1450935647650615885"
      [] OTHER -> "0"

\* function.eval(&[input_column], rows): the siphash of every row.
SipHashColumn(type, values) ==
    [i \in DOMAIN values |-> SipHash(ValueBytes(type, values[i]))]

\* The expect_output_column of the test of each input type, for [1, 2, 1].
ExpectedOutput(type) ==
    CASE type \in {"Int8Array", "UInt8Array", "BinaryArray", "LargeBinaryArray"} ->
             <<"4952851536318644461", "7220060526038107403",
               "4952851536318644461">>
      [] type \in {"Int16Array", "UInt16Array"} ->
             <<"10500823559348167161", "4091451155859037844",
               "10500823559348167161">>
      [] type \in {"Int32Array", "UInt32Array", "Date32Array",
                   "Time32SecondArray", "Time32MillisecondArray",
                   "IntervalYearMonthArray"} ->
             <<"1742378985846435984", "16336925911988107921",
               "1742378985846435984">>
      [] type = "Float32Array" ->
             <<"729488449357906283", "9872512741335963328",
               "729488449357906283">>
      [] type = "Float64Array" ->
             <<"13833534234735907638", "12773237290464453619",
               "13833534234735907638">>
      [] type \in {"StringArray", "LargeStringArray"} ->
             <<"11582886058036617813", "1450935647650615885",
               "11582886058036617813">>
      [] OTHER ->
             <<"2206609067086327257", "11876854719037224982",
               "2206609067086327257">>

\* SipHashFunction::eval on the input column.
SipHashEval ==
    /\ hash_pc = "start"
    /\ hash_result' = SipHashColumn(hash_case.type, hash_case.values)
    /\ hash_pc' = "done"
    /\ UNCHANGED hash_case
    /\ UNCHANGED <<scatter_vars, join_vars, copy_vars, read_vars, bloom_vars,
                   index_vars, more_vars>>

\* No siphash call: the hash variables while something else runs.
HashIdle ==
    /\ hash_case = [type |-> "Int8Array", values |-> <<>>]
    /\ hash_pc = "idle"
    /\ hash_result = <<>>

\* --------------------------------------------- scatter indices of one batch
\* process(), lines 158-167, on one batch: the indices of its rows and the
\* blocks DataBlock::scatter makes of them.
ComputeIndices ==
    /\ index_pc = "start"
    /\ index_result' =
           [indices |-> ScatterIndices(index_rows),
            scatter_blocks |->
                DataBlockScatter(index_rows, ScatterIndices(index_rows),
                                 num_partitions)]
    /\ index_pc' = "done"
    /\ UNCHANGED index_rows
    /\ UNCHANGED <<scatter_vars, join_vars, copy_vars, read_vars, bloom_vars,
                   hash_vars, more_vars>>

NoIndices == [indices |-> <<>>, scatter_blocks |-> <<>>]

\* No batch is looked at on its own: the variables while something else runs.
IndexIdle ==
    /\ index_rows = <<>>
    /\ index_pc = "idle"
    /\ index_result = NoIndices

\* Option::None of the upsert request.
NoUpsertReq == [some |-> FALSE, file_info |-> {}, fail_if_duplicated |-> FALSE]

\* --------------------------------- copy: the upsert request of copied files
\* build_upsert_copied_files_to_meta_req, line 229: v.truncate(7).
ShortEtagLength == 7

\* Etags, as the bytes of an ASCII string: none, shorter than, as long as and
\* longer than the short etag, two of them alike in their first bytes.
SampleEtags ==
    {<<>>, <<1, 2, 3>>, <<1, 2, 3, 4, 5, 6, 7>>, <<1, 2, 3, 4, 5, 6, 7, 8>>,
     <<1, 2, 3, 4, 5, 6, 7, 9>>, <<1, 2, 3, 4, 5, 6, 7, 8, 9>>}

\* StageFileInfo: the path and the etag of a copied file.
StageFiles ==
    [path : {"a", "b"},
     etag : {[some |-> FALSE, v |-> <<>>]} \cup [some : {TRUE}, v : SampleEtags]]

\* Variant: the string is left as long as it was.
truncate_Kept(v, new_len) == v

\* String::truncate(new_len): a longer string is cut to its first new_len
\* bytes, a shorter one is left alone.
truncate(v, new_len) == IF Len(v) > new_len THEN SubSeq(v, 1, new_len) ELSE v

\* build_upsert_copied_files_to_meta_req, lines 228-231: short_etag.
short_etag(etag) ==
    IF etag.some THEN [some |-> TRUE, v |-> truncate(etag.v, ShortEtagLength)]
    ELSE etag

\* BTreeMap::insert: the entry of the path is put, or replaced.
BTreeMapInsert(tree, entry) == {e \in tree : e.path # entry.path} \cup {entry}

\* build_upsert_copied_files_to_meta_req, lines 225-237: copied_file_tree, one
\* TableCopiedFileInfo per path, the one of the last file with that path.
RECURSIVE copied_file_tree(_)
copied_file_tree(copied_files) ==
    IF copied_files = <<>> THEN {}
    ELSE LET n == Len(copied_files)
             file == copied_files[n]
         IN  BTreeMapInsert(copied_file_tree(SubSeq(copied_files, 1, n - 1)),
                            [path |-> file.path, etag |-> short_etag(file.etag)])

\* build_upsert_copied_files_to_meta_req, line 258: fail_if_duplicated: !force.
fail_if_duplicated(force) == ~force

\* build_upsert_copied_files_to_meta_req, lines 241-264.
upsert_copied_files_request(copied_files, purge, force) ==
    IF purge /\ force THEN NoUpsertReq
    ELSE IF copied_file_tree(copied_files) = {} THEN NoUpsertReq
    ELSE [some |-> TRUE, file_info |-> copied_file_tree(copied_files),
          fail_if_duplicated |-> fail_if_duplicated(force)]

\* A call of build_upsert_copied_files_to_meta_req, lines 218-265.
BuildUpsertReq ==
    /\ upsert_pc = "start"
    /\ upsert_pc' = "done"
    /\ upsert_out' = upsert_copied_files_request(upsert_case.copied_files,
                                                 upsert_case.purge,
                                                 upsert_case.force)
    /\ UNCHANGED upsert_case
    /\ UNCHANGED <<scatter_vars, join_vars, copy_vars, read_vars, bloom_vars,
                   hash_vars, index_vars, append_vars, keys_vars>>

UpsertIdle ==
    /\ upsert_case = [copied_files |-> <<>>, purge |-> FALSE, force |-> FALSE]
    /\ upsert_pc = "idle"
    /\ upsert_out = NoUpsertReq

\* ------------------------------------- copy: the append pipeline's stages
\* The data types of fields, and the schemas of up to MaxFields fields.
FieldTypes == {"Int32", "String"}
Schemas == SeqsUpTo(FieldTypes, MaxFields) \ {<<>>}

\* A stage of the pipeline: the schema it is told its input has, and the
\* schema of the batches it produces.
Stage(kind, input_schema, output_schema) ==
    [kind |-> kind, input_schema |-> input_schema,
     output_schema |-> output_schema]

\* build_append_data_pipeline, lines 79-91: TransformCastSchema from
\* source_schema to plan_required_source_schema, when the two differ.
CastStage ==
    IF append_plan.source_schema # append_plan.required_source_schema
    THEN <<Stage("cast", append_plan.source_schema,
                 append_plan.required_source_schema)>>
    ELSE <<>>

\* Variant: the constant-column stage is told the schema the cast produces.
fill_const_columns_input_schema_Required == append_plan.required_source_schema

\* build_append_data_pipeline, line 97: the input_schema handed to
\* fill_const_columns is source_schema.
fill_const_columns_input_schema == append_plan.source_schema

\* build_append_data_pipeline, lines 93-101, and fill_const_columns, lines
\* 267-285: TransformAddConstColumns from input_schema to output_schema, when
\* the plan has constant values.
ConstColumnsStage ==
    IF append_plan.values_consts # <<>>
    THEN <<Stage("add_const_columns", fill_const_columns_input_schema,
                 append_plan.required_values_schema)>>
    ELSE <<>>

\* build_append_data_pipeline, lines 103-126: the append stage, told that its
\* input has plan_required_values_schema; none in Replace mode.
AppendStage ==
    IF append_plan.write_mode.mode = "Replace" THEN <<>>
    ELSE <<Stage("append", append_plan.required_values_schema,
                 append_plan.required_values_schema)>>

\* build_append_data_pipeline, lines 51-128.
build_append_data_pipeline ==
    /\ append_pc = "start"
    /\ append_pc' = "done"
    /\ append_stages' = CastStage \o ConstColumnsStage \o AppendStage
    /\ append_ret' = (append_plan.write_mode.mode = "Insert"
                          /\ append_plan.write_mode.overwrite)
    /\ UNCHANGED append_plan
    /\ UNCHANGED <<scatter_vars, join_vars, copy_vars, read_vars, bloom_vars,
                   hash_vars, index_vars, upsert_vars, keys_vars>>

AppendIdle ==
    /\ append_plan = [source_schema |-> <<>>, required_source_schema |-> <<>>,
                      values_consts |-> <<>>, required_values_schema |-> <<>>,
                      write_mode |-> [mode |-> "Copy", overwrite |-> FALSE]]
    /\ append_pc = "idle"
    /\ append_stages = <<>>
    /\ append_ret = FALSE

\* ------------------------------------------ HashMethodFixedKeys: the keys
\* size_of::<T::Native>() of HashMethodKeysU8, U16, U32 and U64, lines 31-34.
KeyWidths == {1, 2, 4, 8}

\* The data types of the group columns tried.
KeyTypes == {"UInt8", "UInt16", "UInt32"}

\* numeric_byte_size(data_type).
numeric_byte_size(data_type) ==
    CASE data_type = "UInt8" -> 1
      [] data_type = "UInt16" -> 2
      [] data_type = "UInt32" -> 4

\* Values of a type whose bytes differ from each other and from 0.
KeyValues(data_type) ==
    CASE data_type = "UInt8" -> {1, 2}
      [] data_type = "UInt16" -> {1, 513}
      [] data_type = "UInt32" -> {1, 67305985}

\* The bytes of a native value (little endian), and the value of such bytes.
NativeBytes(value, size) ==
    [i \in 1 .. size |-> (value \div (256 ^ (i - 1))) % 256]

RECURSIVE FromNativeBytes(_)
FromNativeBytes(bytes) ==
    IF bytes = <<>> THEN 0
    ELSE bytes[1] + 256 * FromNativeBytes(Tail(bytes))

\* Series::fixed_hash(writer, step) with writer = ptr.add(offsize): the bytes
\* of the value of row r are copied to writer + r * step. The buffer after the
\* writes that land inside it.
fixed_hash(buffer, offsize, step, col) ==
    LET size == numeric_byte_size(col.data_type)
    IN  [p \in DOMAIN buffer |->
            IF \E r \in DOMAIN col.values, b \in 1 .. size :
                   offsize + (r - 1) * step + b = p
            THEN LET r == CHOOSE r \in DOMAIN col.values :
                              \E b \in 1 .. size :
                                  offsize + (r - 1) * step + b = p
                 IN  NativeBytes(col.values[r], size)[p - offsize - (r - 1) * step]
            ELSE buffer[p]]

\* build, line 208: if size == mem_size.
SizeMatches(size, mem_size) == size = mem_size

\* build, lines 198-217: the columns of mem_size bytes are written one after
\* the other at offsize. st holds offsize, the buffer and whether a write went
\* past the end of the buffer.
RECURSIVE build_columns(_, _, _, _, _)
build_columns(mem_size, st, group_columns, step, c) ==
    IF c > Len(group_columns) THEN st
    ELSE LET col == group_columns[c]
             size == numeric_byte_size(col.data_type)
         IN  IF SizeMatches(size, mem_size)
             THEN build_columns(mem_size,
                  [offsize |-> st.offsize + size,
                   buffer |-> fixed_hash(st.buffer, st.offsize, step, col),
                   out_of_bounds |-> st.out_of_bounds
                                         \/ st.offsize + size > step],
                  group_columns, step, c + 1)
             ELSE build_columns(mem_size, st, group_columns, step, c + 1)

\* build_keys, lines 183-194: the keys start as T::Native::default() and build
\* runs for size = step, step / 2, ..., 1.
RECURSIVE BuildPasses(_, _, _, _)
BuildPasses(size, st, group_columns, step) ==
    IF size = 0 THEN st
    ELSE BuildPasses(size \div 2,
                     build_columns(size, st, group_columns, step, 1),
                     group_columns, step)

\* HashMethodFixedKeys::build_keys, lines 183-194. A write past the end of
\* the buffer is undefined behaviour: the call crashes, or returns the buffer
\* with the writes that landed inside it.
build_keys ==
    /\ keys_pc = "start"
    /\ LET step == keys_case.step
           st == BuildPasses(step,
                             [offsize |-> 0,
                              buffer |-> [p \in 1 .. (keys_case.rows * step) |-> 0],
                              out_of_bounds |-> FALSE],
                             keys_case.group_columns, step)
       IN  /\ group_keys' = st.buffer
           /\ keys_pc' \in IF st.out_of_bounds THEN {"built", "crashed"}
                           ELSE {"built"}
    /\ UNCHANGED <<keys_case, de_columns>>
    /\ UNCHANGED <<scatter_vars, join_vars, copy_vars, read_vars, bloom_vars,
                   hash_vars, index_vars, upsert_vars, append_vars>>

\* Deserializer::de_batch(&reader[offsize..], step, rows): the value of row r
\* is read from the bytes at offsize + r * step.
de_batch(reader, offsize, step, rows, data_type) ==
    LET size == numeric_byte_size(data_type)
    IN  [r \in 1 .. rows |->
            FromNativeBytes(SubSeq(reader, offsize + (r - 1) * step + 1,
                                   offsize + (r - 1) * step + size))]

\* Whether de_batch would read past the end of the reader.
ReadsPastEnd(reader, offsize, step, rows, data_type) ==
    offsize + (rows - 1) * step + numeric_byte_size(data_type) > Len(reader)

\* Variant: the fields are read at the offsets build_keys wrote them at.
FieldOffset_AsBuilt(group_fields, f) ==
    LET size(i) == numeric_byte_size(group_fields[i])
        before == {i \in DOMAIN group_fields :
                      size(i) > size(f) \/ (size(i) = size(f) /\ i < f)}
        RECURSIVE Sum(_)
        Sum(S) == IF S = {} THEN 0
                  ELSE LET i == CHOOSE i \in S : TRUE
                       IN  size(i) + Sum(S \ {i})
    IN  Sum(before)

\* de_group_columns, lines 160-168: offsize, the sizes of the fields before f
\* in group_fields added up.
RECURSIVE FieldOffset(_, _)
FieldOffset(group_fields, f) ==
    IF f = 1 THEN 0
    ELSE FieldOffset(group_fields, f - 1)
             + numeric_byte_size(group_fields[f - 1])

\* HashMethodFixedKeys::de_group_columns, lines 142-171, on the keys
\* build_keys returned and the fields of the group columns.
de_group_columns ==
    /\ keys_pc = "built"
    /\ LET group_fields == [c \in DOMAIN keys_case.group_columns |->
                               keys_case.group_columns[c].data_type]
           panics == \E f \in DOMAIN group_fields :
                        ReadsPastEnd(group_keys, FieldOffset(group_fields, f),
                                     keys_case.step, keys_case.rows,
                                     group_fields[f])
       IN  IF panics
           THEN /\ keys_pc' = "panicked"
                /\ UNCHANGED de_columns
           ELSE /\ keys_pc' = "done"
                /\ de_columns' =
                       [f \in DOMAIN group_fields |->
                           [data_type |-> group_fields[f],
                            values |-> de_batch(group_keys,
                                                FieldOffset(group_fields, f),
                                                keys_case.step, keys_case.rows,
                                                group_fields[f])]]
    /\ UNCHANGED <<keys_case, group_keys>>
    /\ UNCHANGED <<scatter_vars, join_vars, copy_vars, read_vars, bloom_vars,
                   hash_vars, index_vars, upsert_vars, append_vars>>

KeysIdle ==
    /\ keys_case = [step |-> 1, rows |-> 0, group_columns |-> <<>>]
    /\ keys_pc = "idle"
    /\ group_keys = <<>>
    /\ de_columns = <<>>

MoreIdle == UpsertIdle /\ AppendIdle /\ KeysIdle

AuxIdle == BloomIdle /\ HashIdle /\ IndexIdle /\ MoreIdle

\* No copy is planned: the copy variables while something else runs.
CopyIdle ==
    /\ copy_plan = [files |-> {}, purge |-> FALSE, force |-> FALSE,
                    overwrite |-> FALSE]
    /\ copy_pc = "idle"
    /\ upsert_req = NoUpsertReq
    /\ on_finished = FALSE
    /\ committed = FALSE
    /\ signals = <<>>
    /\ purged = {}

\* No read is requested: the read variables while something else runs.
ReadIdle ==
    /\ read_req = [raw_ranges |-> <<>>, max_storage_io_requests_merge_gap |-> 0,
                   max_storage_io_requests_page_size |-> 0]
    /\ read_pc = "idle"
    /\ merged_ranges = <<>>
    /\ chunks = <<>>
    /\ completed = <<>>
    /\ read_result = [ok |-> FALSE, error |-> "None", range_data |-> <<>>]

\* The join state before build_join has run: nothing created, nothing attached.
JoinEmpty ==
    /\ barriers = <<>>
    /\ build_state = [barrier |-> 0, restore_barrier |-> 0]
    /\ probe_state = [barrier |-> 0, restore_barrier |-> 0]
    /\ spill_coordinator = [n |-> 0, decided |-> FALSE]
    /\ build_pipe = [added |-> "none", processors |-> 0, join_state |-> FALSE]
    /\ index = [some |-> FALSE, value |-> 0]
    /\ probe_data_fields = [some |-> FALSE, fields |-> <<>>]
    /\ build_sinks = <<>>
    /\ probe_transforms = <<>>
    /\ row_store = {}
    /\ hash_table = {}
    /\ phase = "Building"
    /\ in_memory = {}
    /\ spilled = {}
    /\ restoring = {}
    /\ spilled_rows = {}
    /\ restored = <<>>
    /\ probe_buffered = {}
    /\ probe_rows = {}
    /\ probed_in = {}
    /\ join_output = EmptyBag

\* event() or process() returned an error: the scheduler finishes every port
\* and reports one top-level error to the caller.
SchedulerAbort ==
    /\ pc = "failed"
    /\ pc' = "aborted"
    /\ input_port' = port_finish(input_port)
    /\ output_ports' = [c \in Channels |-> port_finish(output_ports[c])]
    /\ reported' = reported + 1
    /\ UNCHANGED <<num_partitions, num_processors, is_initialized,
                   input_data_blocks, output_data_blocks, last_call, sent,
                   pulled_rows, pushed_rows, pushed_ids, delivered_ids, placed,
                   consumer_finished, errors_raised>>
    /\ UNCHANGED <<join_vars, copy_vars, read_vars, aux_vars>>

\* No join is planned: the join variables while the scatter operator runs.
JoinIdle ==
    /\ join = [build_output_len |-> 0, probe_output_len |-> 0,
               contain_runtime_filter |-> FALSE, need_hold_hash_table |-> FALSE,
               join_spilling_threshold |-> 0]
    /\ join_pc = "idle"
    /\ builder_in = [pipelines_before |-> 0, sources_pipelines |-> 0,
                     probe_schema |-> <<>>, probe_projections |-> {}]
    /\ pipelines = <<>>
    /\ JoinEmpty

\* new(), lines 45-64, for every K in 1..MaxK and M in 1..MaxM.
ScatterInit ==
    /\ num_partitions \in 1 .. MaxK
    /\ num_processors \in 1 .. MaxM
    /\ is_initialized = FALSE
    /\ input_port = PortCreate
    /\ output_ports = [c \in Channels |-> PortCreate]
    /\ input_data_blocks = <<>>
    /\ output_data_blocks = [c \in Channels |-> <<>>]
    /\ pc = "event"
    /\ last_call = [ret |-> "None",
                    obs |-> [initialized |-> FALSE, out_finished |-> {},
                             out_can_push |-> {}, queued |-> {},
                             in_has_data |-> FALSE, in_finished |-> FALSE,
                             buffered |-> FALSE],
                    pushed |-> {}, pulled |-> FALSE, effect |-> FALSE]
    /\ sent = 0
    /\ pulled_rows = 0
    /\ pushed_rows = 0
    /\ pushed_ids = [c \in Channels |-> <<>>]
    /\ delivered_ids = [c \in Channels |-> <<>>]
    /\ placed = {}
    /\ consumer_finished = {}
    /\ errors_raised = <<>>
    /\ reported = 0

Init == ScatterInit /\ JoinIdle /\ CopyIdle /\ ReadIdle /\ AuxIdle

Next ==
    \/ Event
    \/ Process
    \/ SchedulerAbort
    \/ UpstreamPush
    \/ UpstreamFinish
    \/ \E c \in Channels : DownstreamNeedData(c)
    \/ \E c \in Channels : DownstreamPull(c)
    \/ \E c \in Channels : DownstreamFinish(c)

Spec == Init /\ [][Next]_vars

\* Fair scheduling: the scheduler keeps polling event(), runs process() after
\* a Sync and aborts after an error; the upstream finishes the input port in
\* the end; every consumer whose port is open keeps asking for data and pulls
\* what was pushed to it.
Fairness ==
    /\ WF_vars(Event)
    /\ WF_vars(Process)
    /\ WF_vars(SchedulerAbort)
    /\ WF_vars(UpstreamFinish)
    /\ \A c \in 0 .. (MaxM - 1) :
          /\ WF_vars(c \in Channels /\ DownstreamNeedData(c))
          /\ WF_vars(c \in Channels /\ DownstreamPull(c))

\* The operator with the largest partition count, for every processor count.
InitFair ==
    /\ ScatterInit /\ num_partitions = MaxK
    /\ JoinIdle /\ CopyIdle /\ ReadIdle /\ AuxIdle

SpecFair == InitFair /\ [][Next]_vars /\ Fairness

\* ------------------------------------------------- hash join: the builder
\* expand_build_side_pipeline, line 155: the build pipeline's output count.
output_len == join.build_output_len

\* Variant: the barrier is sized one participant short.
BuildBarrierSize_OneShort == IF output_len > 1 THEN output_len - 1 ELSE 1

\* expand_build_side_pipeline, line 157: Barrier::new(output_len).
BuildBarrierSize == output_len

\* Variant: the restore barrier is sized by the probe pipeline.
BuildRestoreBarrierSize_Probe == join.probe_output_len

\* expand_build_side_pipeline, line 158: Barrier::new(output_len).
BuildRestoreBarrierSize == output_len

\* expand_build_side_pipeline, line 156: BuildSpillCoordinator::create(output_len).
SpillCoordinatorSize == output_len

\* Variant: the probe barriers are sized one participant short.
ProbeBarrierSize_OneShort ==
    IF join.probe_output_len > 1 THEN join.probe_output_len - 1 ELSE 1

\* build_join_probe, lines 214-215: Barrier::new(self.main_pipeline.output_len())
\* for the probe barrier and for the probe-side restore barrier.
ProbeBarrierSize == join.probe_output_len

\* expand_build_side_pipeline, lines 192-202: add_sink attaches one
\* TransformHashJoinBuild per output of the build pipeline, unless the plan
\* contains a runtime filter, where the pipeline is duplicated instead.
AttachedBuildSinks ==
    IF join.contain_runtime_filter THEN 0 ELSE output_len

\* Variant: the build sink is attached whatever the flags.
BuildSidePipe_AlwaysSink ==
    [added |-> "add_sink", processors |-> output_len,
     join_state |-> join.contain_runtime_filter \/ join.need_hold_hash_table]

\* expand_build_side_pipeline, lines 192-202: what is put on the build-side
\* pipeline, duplicate(false) or add_sink(create_sink_processor), the number
\* of TransformHashJoinBuild processors that come with it, and whether the
\* builder keeps the build state in self.join_state.
BuildSidePipe ==
    IF join.contain_runtime_filter
    THEN [added |-> "duplicate", processors |-> 0, join_state |-> TRUE]
    ELSE [added |-> "add_sink", processors |-> AttachedBuildSinks,
          join_state |-> join.need_hold_hash_table]

\* build_join_probe, lines 233-264: add_transform attaches one
\* TransformHashJoinProbe per output of the probe pipeline.
AttachedProbeTransforms == join.probe_output_len

\* create_sink_processor, lines 170-178: a build sink gets a BuildSpillState
\* exactly when the spilling threshold is not 0.
BuildSpillStateAttached == join.join_spilling_threshold # 0

\* Variant: probe transforms never get a spill state.
ProbeSpillStateAttached_Never == FALSE

\* build_join_probe, lines 234-241: a probe transform gets a ProbeSpillState
\* exactly when the spilling threshold is not 0.
ProbeSpillStateAttached == join.join_spilling_threshold # 0

\* Barrier::new(n) of tokio: n participants, none arrived, first generation.
BarrierNew(n) == [n |-> IF n = 0 THEN 1 ELSE n, arrived |-> 0, generation |-> 0]

\* A call of Barrier::new: a new instance, after those created before it.
Alloc(heap, n) == Append(heap, BarrierNew(n))

\* Variant: the build state is handed the same instance twice.
BuildSideBarriers_Shared(heap) ==
    LET heap1 == Alloc(heap, BuildBarrierSize)
    IN  [heap |-> heap1,
         state |-> [barrier |-> Len(heap1), restore_barrier |-> Len(heap1)]]

\* expand_build_side_pipeline, lines 157-167: barrier and restore_barrier are
\* created by two calls of Barrier::new and moved into HashJoinBuildState.
BuildSideBarriers(heap) ==
    LET heap1 == Alloc(heap, BuildBarrierSize)
        heap2 == Alloc(heap1, BuildRestoreBarrierSize)
    IN  [heap |-> heap2,
         state |-> [barrier |-> Len(heap1), restore_barrier |-> Len(heap2)]]

\* build_join_probe, lines 214-227: the same for HashJoinProbeState.
ProbeSideBarriers(heap) ==
    LET heap1 == Alloc(heap, ProbeBarrierSize)
        heap2 == Alloc(heap1, ProbeBarrierSize)
    IN  [heap |-> heap2,
         state |-> [barrier |-> Len(heap1), restore_barrier |-> Len(heap2)]]

\* The spill partitions of a join, and the partition a key hashes to.
SpillPartitionIds == 0 .. (SpillPartitions - 1)
SpillPartitionOf(key) == GroupHash(key) % SpillPartitions

\* Variant: every sink is handed a coordinator of its own.
SinkSpillCoordinator_PerSink(w) == IF BuildSpillStateAttached THEN w ELSE 0

\* create_sink_processor, lines 170-178: the BuildSpillState of every sink gets
\* a clone of the handle to the one BuildSpillCoordinator of line 156 (instance
\* 1; 0 stands for a sink without a spill state).
SinkSpillCoordinator(w) == IF BuildSpillStateAttached THEN 1 ELSE 0

\* create_sink_processor, lines 174 and 180: every sink, and its spill state,
\* gets a clone of the handle to the HashJoinBuildState of lines 159-167.
SinkBuildState(w, state) == state

\* Variant: the index is taken after the build pipeline was pushed.
BuilderIndex_AfterPush ==
    IF join.contain_runtime_filter
    THEN [some |-> TRUE, value |-> Len(pipelines) + 1]
    ELSE index

\* expand_build_side_pipeline, lines 192-195: with a runtime filter self.index
\* becomes the length of self.pipelines before the build pipeline is pushed;
\* otherwise it is left as it was.
BuilderIndex ==
    IF join.contain_runtime_filter
    THEN [some |-> TRUE, value |-> Len(pipelines)]
    ELSE index

\* expand_build_side_pipeline, lines 204-206: the build-side main pipeline is
\* pushed, then its source pipelines.
LinkedPipelines(linked) ==
    Append(linked, "build_main")
        \o [i \in 1 .. builder_in.sources_pipelines |-> "build_source"]

\* build_join_probe, lines 280-285: the fields of the probe schema whose
\* position (counted from 0) is among the probe projections, in schema order.
RECURSIVE ProjectedProbeFields(_, _, _)
ProjectedProbeFields(fields, projections, i) ==
    IF i >= Len(fields) THEN <<>>
    ELSE (IF i \in projections THEN <<fields[i + 1]>> ELSE <<>>)
             \o ProjectedProbeFields(fields, projections, i + 1)

\* build_join_probe, lines 279-287: self.probe_data_fields is set when the
\* hash table is to be held, and left as it was otherwise.
ProbeDataFields ==
    IF join.need_hold_hash_table
    THEN [some |-> TRUE,
          fields |-> ProjectedProbeFields(builder_in.probe_schema,
                                          builder_in.probe_projections, 0)]
    ELSE probe_data_fields

\* build_join, lines 121-125.
build_join ==
    /\ join_pc = "plan"
    /\ join_pc' = "run"
    /\ LET b == BuildSideBarriers(barriers)
           p == ProbeSideBarriers(b.heap)
       IN  /\ barriers' = p.heap
           /\ build_state' = b.state
           /\ probe_state' = p.state
    /\ spill_coordinator' = [n |-> SpillCoordinatorSize, decided |-> FALSE]
    /\ build_pipe' = BuildSidePipe
    /\ index' = BuilderIndex
    /\ pipelines' = LinkedPipelines(pipelines)
    /\ probe_data_fields' = ProbeDataFields
    /\ build_sinks' =
           [w \in 1 .. BuildSidePipe.processors |->
               [pc |-> "consume", generation |-> 0, leader |-> FALSE,
                spill_state |-> BuildSpillStateAttached,
                spill_coordinator |-> SinkSpillCoordinator(w),
                build_state |->
                    SinkBuildState(w, BuildSideBarriers(barriers).state)]]
    /\ probe_transforms' =
           [p \in 1 .. AttachedProbeTransforms |->
               [pc |-> "wait", saw |-> {}, generation |-> 0, leader |-> FALSE,
                arrivals |-> 0, spill_state |-> ProbeSpillStateAttached]]
    /\ in_memory' = SpillPartitionIds
    /\ UNCHANGED <<join, builder_in, row_store, hash_table, phase, spilled, restoring,
                   spilled_rows, restored, probe_buffered, probe_rows,
                   probed_in, join_output>>
    /\ UNCHANGED <<scatter_vars, copy_vars, read_vars, aux_vars>>

\* ------------------------------------------------- hash join: the workers
\* Barrier::wait: does this arrival open the barrier, and the barrier after it.
BarrierOpens(b) == b.arrived + 1 = b.n
BarrierArrive(b) ==
    IF BarrierOpens(b)
    THEN [b EXCEPT !.arrived = 0, !.generation = @ + 1]
    ELSE [b EXCEPT !.arrived = @ + 1]

\* Build worker w consumes its share of the build input: a row that goes to
\* the row store, or to external storage when its partition is spilled.
BuildAppend(w) ==
    /\ join_pc = "run"
    /\ build_sinks[w].pc = "consume"
    /\ \E key \in Keys :
          IF SpillPartitionOf(key) \in spilled
          THEN /\ spilled_rows' = spilled_rows \cup {<<w, key>>}
               /\ UNCHANGED row_store
          ELSE /\ row_store' = row_store \cup {<<w, key>>}
               /\ UNCHANGED spilled_rows
    /\ build_sinks' = [build_sinks EXCEPT ![w].pc = "exhausted"]
    /\ UNCHANGED <<builder_vars, barriers, spill_coordinator, probe_transforms,
                   hash_table, phase, in_memory, spilled, restoring, restored,
                   probe_buffered, probe_rows, probed_in, join_output>>
    /\ UNCHANGED <<scatter_vars, copy_vars, read_vars, aux_vars>>

\* Variant: a spilled partition stays listed as in memory.
InMemoryAfterSpill_Kept(S) == in_memory

\* The partitions left in memory once the partitions of S are spilled.
InMemoryAfterSpill(S) == in_memory \ S

\* The memory threshold is exceeded while building: build worker w, elected by
\* the spill coordinator, spills the partitions of S, once per join.
SpillDecide(w, S) ==
    /\ join_pc = "run"
    /\ build_sinks[w].spill_state
    /\ build_sinks[w].pc \in {"consume", "exhausted"}
    /\ ~spill_coordinator.decided
    /\ S # {}
    /\ S \subseteq in_memory
    /\ spill_coordinator' = [spill_coordinator EXCEPT !.decided = TRUE]
    /\ spilled' = spilled \cup S
    /\ in_memory' = InMemoryAfterSpill(S)
    /\ spilled_rows' =
           spilled_rows \cup {r \in row_store : SpillPartitionOf(r[2]) \in S}
    /\ row_store' = {r \in row_store : SpillPartitionOf(r[2]) \notin S}
    /\ UNCHANGED <<builder_vars, barriers, build_sinks, probe_transforms,
                   hash_table, phase, restoring, restored, probe_buffered,
                   probe_rows, probed_in, join_output>>
    /\ UNCHANGED <<scatter_vars, copy_vars, read_vars, aux_vars>>

\* Build worker w, its input exhausted, arrives at the build barrier
\* (Barrier::wait): the n-th arrival opens the barrier and is its leader, and
\* with it the hash table over the row store is complete: Building -> Built.
BuildArrive(w) ==
    /\ join_pc = "run"
    /\ build_sinks[w].pc = "exhausted"
    /\ LET h == build_state.barrier
       IN  /\ barriers' = [barriers EXCEPT ![h] = BarrierArrive(@)]
           /\ build_sinks' =
                  [build_sinks EXCEPT ![w].pc = "waiting",
                                      ![w].generation = barriers[h].generation,
                                      ![w].leader = BarrierOpens(barriers[h])]
           /\ IF BarrierOpens(barriers[h])
              THEN hash_table' = row_store /\ phase' = "Built"
              ELSE UNCHANGED <<hash_table, phase>>
    /\ UNCHANGED <<builder_vars, spill_coordinator, probe_transforms, row_store,
                   spill_vars, probe_rows, probed_in, join_output>>
    /\ UNCHANGED <<scatter_vars, copy_vars, read_vars, aux_vars>>

\* Build worker w proceeds past the barrier once its generation is over.
BuildPass(w) ==
    /\ join_pc = "run"
    /\ build_sinks[w].pc = "waiting"
    /\ barriers[build_state.barrier].generation > build_sinks[w].generation
    /\ build_sinks' = [build_sinks EXCEPT ![w].pc = "passed"]
    /\ UNCHANGED <<builder_vars, barriers, spill_coordinator, probe_transforms,
                   row_store, hash_table, phase, spill_vars, probe_rows,
                   probed_in, join_output>>
    /\ UNCHANGED <<scatter_vars, copy_vars, read_vars, aux_vars>>

\* Build worker w, which has a spill state, has written its spilled rows and
\* arrives at the build-side restore barrier.
BuildArriveRestore(w) ==
    /\ join_pc = "run"
    /\ build_sinks[w].pc = "passed"
    /\ build_sinks[w].spill_state
    /\ LET h == build_state.restore_barrier
       IN  /\ barriers' = [barriers EXCEPT ![h] = BarrierArrive(@)]
           /\ build_sinks' =
                  [build_sinks EXCEPT ![w].pc = "restore_waiting",
                                      ![w].generation = barriers[h].generation]
    /\ UNCHANGED <<builder_vars, spill_coordinator, probe_transforms, row_store,
                   hash_table, phase, spill_vars, probe_rows, probed_in,
                   join_output>>
    /\ UNCHANGED <<scatter_vars, copy_vars, read_vars, aux_vars>>

\* Build worker w proceeds past the restore barrier: its part is done.
BuildPassRestore(w) ==
    /\ join_pc = "run"
    /\ build_sinks[w].pc = "restore_waiting"
    /\ barriers[build_state.restore_barrier].generation > build_sinks[w].generation
    /\ build_sinks' = [build_sinks EXCEPT ![w].pc = "done"]
    /\ UNCHANGED <<builder_vars, barriers, spill_coordinator, probe_transforms,
                   row_store, hash_table, phase, spill_vars, probe_rows,
                   probed_in, join_output>>
    /\ UNCHANGED <<scatter_vars, copy_vars, read_vars, aux_vars>>

\* The joined rows of probe row pr against the rows of table.
Matches(table, pr) == {<<b, pr>> : b \in {r \in table : r[2] = pr[2]}}

\* The state the spill coordinator records for partition q.
StatesOf(q) ==
    {s \in {"in-memory", "spilled", "restoring"} :
        \/ s = "in-memory" /\ q \in in_memory
        \/ s = "spilled" /\ q \in spilled
        \/ s = "restoring" /\ q \in restoring}

\* Probe worker p reads the hash table, which it does once the state is Built,
\* and probes its row: a worker with a spill state sets the row aside when the
\* row's partition is not in memory.
ProbeRead(p) ==
    /\ join_pc = "run"
    /\ probe_transforms[p].pc = "wait"
    /\ phase \in {"Built", "Probing"}
    /\ phase' = "Probing"
    /\ \E key \in Keys :
          LET pr == <<p, key>>
              q == SpillPartitionOf(key)
          IN  /\ probe_rows' = probe_rows \cup {pr}
              /\ IF probe_transforms[p].spill_state /\ q \notin in_memory
                 THEN /\ probe_buffered' = probe_buffered \cup {pr}
                      /\ UNCHANGED <<join_output, probed_in>>
                 ELSE /\ join_output' =
                             join_output (+) SetToBag(Matches(hash_table, pr))
                      /\ probed_in' = probed_in \cup StatesOf(q)
                      /\ UNCHANGED probe_buffered
    /\ probe_transforms' =
           [probe_transforms EXCEPT ![p].pc = "probing", ![p].saw = hash_table]
    /\ UNCHANGED <<builder_vars, barriers, spill_coordinator, build_sinks,
                   row_store, hash_table, in_memory, spilled, restoring,
                   spilled_rows, restored>>
    /\ UNCHANGED <<scatter_vars, copy_vars, read_vars, aux_vars>>

\* Probe worker p has probed what is in memory and nothing is left to restore;
\* with the last probe worker the join is over: Probing -> Done.
ProbeFinish(p) ==
    /\ join_pc = "run"
    /\ probe_transforms[p].pc = "probing"
    /\ ~probe_transforms[p].spill_state \/ spilled = {}
    /\ probe_transforms' = [probe_transforms EXCEPT ![p].pc = "done"]
    /\ phase' = IF \A o \in DOMAIN probe_transforms \ {p} :
                        probe_transforms[o].pc = "done"
                THEN "Done" ELSE phase
    /\ UNCHANGED <<builder_vars, barriers, spill_coordinator, build_sinks,
                   row_store, hash_table, spill_vars, probe_rows,
                   probed_in, join_output>>
    /\ UNCHANGED <<scatter_vars, copy_vars, read_vars, aux_vars>>

\* Probe worker p has probed what is in memory and arrives at the probe-side
\* restore barrier, to go on with the next spilled partition.
ProbeArriveRestore(p) ==
    /\ join_pc = "run"
    /\ probe_transforms[p].pc = "probing"
    /\ probe_transforms[p].spill_state
    /\ spilled # {}
    /\ LET h == probe_state.restore_barrier
       IN  /\ barriers' = [barriers EXCEPT ![h] = BarrierArrive(@)]
           /\ probe_transforms' =
                  [probe_transforms EXCEPT
                      ![p].pc = "restore_waiting",
                      ![p].generation = barriers[h].generation,
                      ![p].arrivals = @ + 1,
                      ![p].leader = BarrierOpens(barriers[h])]
    /\ UNCHANGED <<builder_vars, spill_coordinator, build_sinks, row_store,
                   hash_table, phase, spill_vars, probe_rows, probed_in,
                   join_output>>
    /\ UNCHANGED <<scatter_vars, copy_vars, read_vars, aux_vars>>

\* Probe worker p proceeds past the restore barrier; the leader is the one
\* that restores the next spilled partition.
ProbePassRestore(p) ==
    /\ join_pc = "run"
    /\ probe_transforms[p].pc = "restore_waiting"
    /\ barriers[probe_state.restore_barrier].generation >
           probe_transforms[p].generation
    /\ probe_transforms' =
           [probe_transforms EXCEPT
               ![p].pc = IF probe_transforms[p].leader THEN "leader"
                         ELSE "follower"]
    /\ UNCHANGED <<builder_vars, barriers, spill_coordinator, build_sinks,
                   row_store, hash_table, phase, spill_vars, probe_rows,
                   probed_in, join_output>>
    /\ UNCHANGED <<scatter_vars, copy_vars, read_vars, aux_vars>>

\* The spilled partition that is restored next.
NextSpilled == CHOOSE q \in spilled : \A r \in spilled : q <= r

\* Variant: a partition being restored stays listed as spilled.
SpilledAfterRestoreBegin_Kept(q) == spilled

\* The partitions left spilled once partition q starts being restored.
SpilledAfterRestoreBegin(q) == spilled \ {q}

\* The leader starts restoring the next spilled partition, once the build
\* side is past its restore barrier: Spilled -> Restoring.
RestoreBegin(p) ==
    /\ join_pc = "run"
    /\ probe_transforms[p].pc = "leader"
    /\ spilled # {}
    /\ barriers[build_state.restore_barrier].generation > 0
    /\ restoring' = restoring \cup {NextSpilled}
    /\ spilled' = SpilledAfterRestoreBegin(NextSpilled)
    /\ probe_transforms' = [probe_transforms EXCEPT ![p].pc = "loading"]
    /\ UNCHANGED <<builder_vars, barriers, spill_coordinator, build_sinks,
                   row_store, hash_table, phase, in_memory, spilled_rows,
                   restored, probe_buffered, probe_rows, probed_in, join_output>>
    /\ UNCHANGED <<scatter_vars, copy_vars, read_vars, aux_vars>>

\* The rows of spilled partition q as read back from external storage.
RestoredRows(q) == {r \in spilled_rows : SpillPartitionOf(r[2]) = q}

\* The leader has read the partition back: Restoring -> InMemory.  The hash
\* table built at the build barrier is left as it is.
RestoreEnd(p) ==
    /\ join_pc = "run"
    /\ probe_transforms[p].pc = "loading"
    /\ \E q \in restoring :
          /\ restoring' = restoring \ {q}
          /\ in_memory' = in_memory \cup {q}
          /\ restored' = Append(restored, q)
    /\ probe_transforms' = [probe_transforms EXCEPT ![p].pc = "follower"]
    /\ UNCHANGED <<builder_vars, barriers, spill_coordinator, build_sinks,
                   row_store, hash_table, phase, spilled, spilled_rows,
                   probe_buffered, probe_rows, probed_in, join_output>>
    /\ UNCHANGED <<scatter_vars, copy_vars, read_vars, aux_vars>>

\* Probe worker p, past the restore barrier, probes the rows it set aside for
\* the partition restored in its round, once that partition is restored.
ProbeRestored(p) ==
    /\ join_pc = "run"
    /\ probe_transforms[p].pc = "follower"
    /\ Len(restored) > probe_transforms[p].generation
    /\ LET q == restored[Len(restored)]
           mine == {pr \in probe_buffered : pr[1] = p /\ SpillPartitionOf(pr[2]) = q}
       IN  /\ join_output' =
                  join_output (+)
                      SetToBag(UNION {Matches(RestoredRows(q), pr) : pr \in mine})
           /\ probe_buffered' = probe_buffered \ mine
           /\ probed_in' = probed_in \cup StatesOf(q)
    /\ probe_transforms' = [probe_transforms EXCEPT ![p].pc = "probing"]
    /\ UNCHANGED <<builder_vars, barriers, spill_coordinator, build_sinks,
                   row_store, hash_table, phase, in_memory, spilled, restoring,
                   spilled_rows, restored, probe_rows>>
    /\ UNCHANGED <<scatter_vars, copy_vars, read_vars, aux_vars>>

\* The operator has one fixed configuration while the join runs.
ScatterIdle ==
    /\ num_partitions = 1
    /\ num_processors = 1
    /\ is_initialized = FALSE
    /\ input_port = PortCreate
    /\ output_ports = [c \in Channels |-> PortCreate]
    /\ input_data_blocks = <<>>
    /\ output_data_blocks = [c \in Channels |-> <<>>]
    /\ pc = "idle"
    /\ last_call = [ret |-> "None",
                    obs |-> [initialized |-> FALSE, out_finished |-> {},
                             out_can_push |-> {}, queued |-> {},
                             in_has_data |-> FALSE, in_finished |-> FALSE,
                             buffered |-> FALSE],
                    pushed |-> {}, pulled |-> FALSE, effect |-> FALSE]
    /\ sent = 0
    /\ pulled_rows = 0
    /\ pushed_rows = 0
    /\ pushed_ids = [c \in Channels |-> <<>>]
    /\ delivered_ids = [c \in Channels |-> <<>>]
    /\ placed = {}
    /\ consumer_finished = {}
    /\ errors_raised = <<>>
    /\ reported = 0

\* A HashJoin plan handed to build_join, for every pipeline width and flag.
JoinInit ==
    /\ join \in [build_output_len : 1 .. MaxBuild,
                 probe_output_len : 1 .. MaxProbe,
                 contain_runtime_filter : BOOLEAN,
                 need_hold_hash_table : BOOLEAN,
                 join_spilling_threshold : {0, 1}]
    /\ join_pc = "plan"
    /\ builder_in = [pipelines_before |-> 0, sources_pipelines |-> 1,
                     probe_schema |-> <<"a", "b">>, probe_projections |-> {0}]
    /\ pipelines = <<>>
    /\ JoinEmpty

JoinNext ==
    \/ build_join
    \/ \E w \in DOMAIN build_sinks : BuildAppend(w)
    \/ \E w \in DOMAIN build_sinks :
          \E S \in SUBSET SpillPartitionIds : SpillDecide(w, S)
    \/ \E w \in DOMAIN build_sinks : BuildArrive(w)
    \/ \E w \in DOMAIN build_sinks : BuildPass(w)
    \/ \E w \in DOMAIN build_sinks : BuildArriveRestore(w)
    \/ \E w \in DOMAIN build_sinks : BuildPassRestore(w)
    \/ \E p \in DOMAIN probe_transforms : ProbeRead(p)
    \/ \E p \in DOMAIN probe_transforms : ProbeFinish(p)
    \/ \E p \in DOMAIN probe_transforms : ProbeArriveRestore(p)
    \/ \E p \in DOMAIN probe_transforms : ProbePassRestore(p)
    \/ \E p \in DOMAIN probe_transforms : RestoreBegin(p)
    \/ \E p \in DOMAIN probe_transforms : RestoreEnd(p)
    \/ \E p \in DOMAIN probe_transforms : ProbeRestored(p)

InitJoin == JoinInit /\ ScatterIdle /\ CopyIdle /\ ReadIdle /\ AuxIdle

SpecJoin == InitJoin /\ [][JoinNext]_vars

\* The builder alone: build_join for every plan, every number of pipelines
\* linked before it and of source pipelines of the build side, and every probe
\* schema and set of probe projections.
BuilderInit ==
    /\ join \in [build_output_len : 1 .. MaxBuild,
                 probe_output_len : 1 .. MaxProbe,
                 contain_runtime_filter : BOOLEAN,
                 need_hold_hash_table : BOOLEAN,
                 join_spilling_threshold : {0, 1}]
    /\ join_pc = "plan"
    /\ builder_in \in [pipelines_before : 0 .. MaxLinked,
                       sources_pipelines : 0 .. MaxSources,
                       probe_schema : {<<"a">>, <<"a", "b">>},
                       probe_projections : SUBSET {0, 1}]
    /\ builder_in.probe_projections \subseteq
           0 .. (Len(builder_in.probe_schema) - 1)
    /\ pipelines = [i \in 1 .. builder_in.pipelines_before |-> "earlier"]
    /\ JoinEmpty

BuilderNext == build_join

InitBuilder == BuilderInit /\ ScatterIdle /\ CopyIdle /\ ReadIdle /\ AuxIdle

SpecBuilder == InitBuilder /\ [][BuilderNext]_vars

\* ------------------------------------------------------- copy: the builder
\* build_upsert_copied_files_to_meta_req, lines 218-265: no request when purge
\* and force are both set or no file was copied, else one entry per file path
\* and fail_if_duplicated = !force.
build_upsert_copied_files_to_meta_req ==
    IF copy_plan.purge /\ copy_plan.force THEN NoUpsertReq
    ELSE IF copy_plan.files = {} THEN NoUpsertReq
    ELSE [some |-> TRUE, file_info |-> copy_plan.files,
          fail_if_duplicated |-> ~copy_plan.force]

\* build_commit_data_pipeline, lines 129-166: the upsert request, the commit
\* stage (commit_insertion) and the on-finished callback of the pipeline.
build_commit_data_pipeline ==
    /\ copy_pc = "plan"
    /\ copy_pc' = "running"
    /\ upsert_req' = build_upsert_copied_files_to_meta_req
    /\ on_finished' = TRUE
    /\ UNCHANGED <<copy_plan, committed, signals, purged>>
    /\ UNCHANGED <<scatter_vars, join_vars, read_vars, aux_vars>>

\* The pipeline runs to the end of its commit stage.
PipelineCommit ==
    /\ copy_pc = "running"
    /\ copy_pc' = "succeeded"
    /\ committed' = TRUE
    /\ UNCHANGED <<copy_plan, upsert_req, on_finished, signals, purged>>
    /\ UNCHANGED <<scatter_vars, join_vars, read_vars, aux_vars>>

\* A stage of the pipeline fails before the commit stage has completed.
PipelineFail ==
    /\ copy_pc = "running"
    /\ copy_pc' = "errored"
    /\ UNCHANGED <<copy_plan, upsert_req, on_finished, committed, signals, purged>>
    /\ UNCHANGED <<scatter_vars, join_vars, read_vars, aux_vars>>

\* Variant: the callback purges whatever the signal is.
PurgeCalled_AnySignal(may_error) == copy_plan.purge

\* set_copy_on_finished, lines 180-202: try_purge_files is called in the None
\* arm of the match, when copy_purge_option is set.
PurgeCalled(may_error) == may_error = "None" /\ copy_plan.purge

\* try_purge_files, lines 288-310: the files removed; a failure to get the
\* operator or to remove files is logged and skipped.
try_purge_files == SUBSET copy_plan.files

\* The pipeline has finished: the executor calls the on-finished callback
\* with None after success and with the error otherwise
\* (set_copy_on_finished, lines 180-214).
PipelineFinished ==
    /\ copy_pc \in {"succeeded", "errored"}
    /\ on_finished
    /\ copy_pc' = "finished"
    /\ LET may_error == IF copy_pc = "succeeded" THEN "None" ELSE "Some"
       IN  /\ signals' = Append(signals, may_error)
           /\ IF PurgeCalled(may_error)
              THEN purged' \in try_purge_files
              ELSE purged' = {}
    /\ UNCHANGED <<copy_plan, upsert_req, on_finished, committed>>
    /\ UNCHANGED <<scatter_vars, join_vars, read_vars, aux_vars>>

\* A copy plan handed to the builder: staged files, purge, force, overwrite.
CopyInit ==
    /\ copy_plan \in [files : SUBSET (1 .. MaxFiles), purge : BOOLEAN,
                      force : BOOLEAN, overwrite : BOOLEAN]
    /\ copy_pc = "plan"
    /\ upsert_req = NoUpsertReq
    /\ on_finished = FALSE
    /\ committed = FALSE
    /\ signals = <<>>
    /\ purged = {}

CopyNext ==
    \/ build_commit_data_pipeline
    \/ PipelineCommit
    \/ PipelineFail
    \/ PipelineFinished

InitCopy == CopyInit /\ ScatterIdle /\ JoinIdle /\ ReadIdle /\ AuxIdle

SpecCopy == InitCopy /\ [][CopyNext]_vars

\* A call of build_upsert_copied_files_to_meta_req: the copied files, the
\* purge option of the stage and force.
UpsertInit ==
    /\ upsert_case \in [copied_files : SeqsUpTo(StageFiles, MaxCopied),
                        purge : BOOLEAN, force : BOOLEAN]
    /\ upsert_pc = "start"
    /\ upsert_out = NoUpsertReq

UpsertNext == BuildUpsertReq

InitUpsert ==
    /\ UpsertInit
    /\ ScatterIdle /\ JoinIdle /\ CopyIdle /\ ReadIdle
    /\ BloomIdle /\ HashIdle /\ IndexIdle /\ AppendIdle /\ KeysIdle

SpecUpsert == InitUpsert /\ [][UpsertNext]_vars

\* A call of build_append_data_pipeline: the schema of the source, and a plan
\* whose required source schema has as many fields as the source and whose
\* required values schema is the required source schema followed by the
\* types of the constant values.
AppendInit ==
    /\ append_plan \in [source_schema : Schemas,
                        required_source_schema : Schemas,
                        values_consts : SeqsUpTo(FieldTypes, MaxConsts),
                        required_values_schema : SeqsUpTo(FieldTypes,
                                                          MaxFields + MaxConsts),
                        write_mode : [mode : {"Insert", "Replace", "Copy"},
                                      overwrite : BOOLEAN]]
    /\ Len(append_plan.source_schema) = Len(append_plan.required_source_schema)
    /\ append_plan.required_values_schema
           = append_plan.required_source_schema \o append_plan.values_consts
    /\ append_plan.write_mode.mode # "Insert" => ~append_plan.write_mode.overwrite
    /\ append_pc = "start"
    /\ append_stages = <<>>
    /\ append_ret = FALSE

AppendNext == build_append_data_pipeline

InitAppend ==
    /\ AppendInit
    /\ ScatterIdle /\ JoinIdle /\ CopyIdle /\ ReadIdle
    /\ BloomIdle /\ HashIdle /\ IndexIdle /\ UpsertIdle /\ KeysIdle

SpecAppend == InitAppend /\ [][AppendNext]_vars

\* The group columns of rows rows: a data type and a value for every row.
GroupColumns(rows) ==
    UNION {[data_type : {t}, values : [1 .. rows -> KeyValues(t)]] : t \in KeyTypes}

\* A call of build_keys, for every key width, 1..MaxKeyRows rows and up to
\* MaxGroupColumns group columns, whatever their total width.
KeysInit ==
    /\ \E rows \in 1 .. MaxKeyRows :
          keys_case \in [step : KeyWidths, rows : {rows},
                         group_columns : SeqsUpTo(GroupColumns(rows),
                                                  MaxGroupColumns)]
    /\ keys_pc = "start"
    /\ group_keys = <<>>
    /\ de_columns = <<>>

KeysNext ==
    \/ build_keys
    \/ de_group_columns

InitKeys ==
    /\ KeysInit
    /\ ScatterIdle /\ JoinIdle /\ CopyIdle /\ ReadIdle
    /\ BloomIdle /\ HashIdle /\ IndexIdle /\ UpsertIdle /\ AppendIdle

SpecKeys == InitKeys /\ [][KeysNext]_vars

\* -------------------------------------------------------- merge_io_read
\* A byte range [start, end) of the object.
Range(start, end) == [start |-> start, end |-> end]

\* The non-empty ranges within the object.
Ranges == {r \in [start : 0 .. MaxPos, end : 1 .. (MaxPos + 1)] : r.start < r.end}

\* The byte of the object at position pos.
ObjectByte(pos) == (pos * 37 + 11) % 256

\* Operator::range_read(start..end): the bytes of the object in [start, end).
range_read(start, end) == [i \in 1 .. (end - start) |-> ObjectByte(start + i - 1)]

RECURSIVE InsertByStart(_, _)
InsertByStart(sorted, r) ==
    IF sorted = <<>> THEN <<r>>
    ELSE IF r.start < Head(sorted).start THEN <<r>> \o sorted
         ELSE <<Head(sorted)>> \o InsertByStart(Tail(sorted), r)

RECURSIVE SortByStart(_)
\* The ranges ordered by their start, equal starts in their given order.
SortByStart(ranges) ==
    IF ranges = <<>> THEN <<>>
    ELSE InsertByStart(SortByStart(SubSeq(ranges, 1, Len(ranges) - 1)),
                       ranges[Len(ranges)])

\* Doc comment of merge_io_read, lines 43-48: a request is merged into the
\* last one if the gap is less than max_gap_size, and is not merged if the
\* size of the last one is larger than max_range_size.
Overlaps(last, r, gap, page) ==
    /\ ~((last.end - last.start) > page)
    /\ r.start - last.end < gap

Min(a, b) == IF a < b THEN a ELSE b
Max(a, b) == IF a > b THEN a ELSE b

RECURSIVE MergeInto(_, _, _, _)
\* RangeMerger: the ranges are added one by one to the last merged range or
\* after it.
MergeInto(merged, ranges, gap, page) ==
    IF ranges = <<>> THEN merged
    ELSE LET r == Head(ranges)
             n == Len(merged)
         IN  IF n > 0 /\ Overlaps(merged[n], r, gap, page)
             THEN MergeInto([merged EXCEPT ![n] =
                                Range(Min(@.start, r.start), Max(@.end, r.end))],
                            Tail(ranges), gap, page)
             ELSE MergeInto(Append(merged, r), Tail(ranges), gap, page)

\* RangeMerger::from_iter(ranges, max_gap_size, max_range_size).ranges().
RangeMergerFromIter(ranges, gap, page) ==
    MergeInto(<<>>, SortByStart(ranges), gap, page)

\* RangeMerger::get(range): the first merged range that holds the range, with
\* its index (from 0), or none.
RangeMergerGet(merged, r) ==
    LET holds == {i \in 1 .. Len(merged) :
                     merged[i].start <= r.start /\ r.end <= merged[i].end}
    IN  IF holds = {} THEN [found |-> FALSE, index |-> 0, range |-> r]
        ELSE LET i == CHOOSE i \in holds : \A j \in holds : i <= j
             IN  [found |-> TRUE, index |-> i - 1, range |-> merged[i]]

\* Variant: the two settings are passed to the merger in the other order.
max_gap_size_Swapped == read_req.max_storage_io_requests_page_size

\* merge_io_read, line 55: settings.get_max_storage_io_requests_merge_gap().
max_gap_size == read_req.max_storage_io_requests_merge_gap

\* merge_io_read, line 56: settings.get_max_storage_io_requests_page_size().
max_range_size == read_req.max_storage_io_requests_page_size

\* The raw range of entry j of raw_ranges, and its column id.
RawRange(j) == read_req.raw_ranges[j][2]
RawIndex(j) == read_req.raw_ranges[j][1]

\* merge_io_read, lines 55-92: the raw ranges are merged and one read per
\* merged range is spawned, carrying the index of its merged range.
MergeAndSpawn ==
    /\ read_pc = "start"
    /\ read_pc' = "reading"
    /\ merged_ranges' =
           RangeMergerFromIter([j \in 1 .. Len(read_req.raw_ranges) |-> RawRange(j)],
                               max_gap_size, max_range_size)
    /\ chunks' = [i \in 1 .. Len(merged_ranges') |->
                     [state |-> "pending", index |-> i - 1, chunk |-> <<>>]]
    /\ UNCHANGED <<read_req, completed, read_result>>
    /\ UNCHANGED <<scatter_vars, join_vars, copy_vars, aux_vars>>

\* Variant: a read is tagged with its place in the order of completion.
ReadTag_ByCompletion(i) == Len(completed)

\* merge_io_read, lines 70-78: the read of the i-th merged range is given idx,
\* its position (from 0) in merged_ranges, and read_range returns it (line 154).
ReadTag(i) == i - 1

\* read_range, lines 147-155, succeeds: (index, chunk) of one merged range.
ReadRangeOk(i) ==
    /\ read_pc = "reading"
    /\ chunks[i].state = "pending"
    /\ chunks' = [chunks EXCEPT ![i] =
                     [state |-> "ok", index |-> ReadTag(i),
                      chunk |-> range_read(merged_ranges[i].start,
                                           merged_ranges[i].end)]]
    /\ completed' = Append(completed, i)
    /\ UNCHANGED <<read_req, read_pc, merged_ranges, read_result>>
    /\ UNCHANGED <<scatter_vars, join_vars, copy_vars, aux_vars>>

\* read_range, line 153: range_read(..).await? fails.
ReadRangeErr(i) ==
    /\ read_pc = "reading"
    /\ chunks[i].state = "pending"
    /\ chunks' = [chunks EXCEPT ![i].state = "error"]
    /\ completed' = Append(completed, i)
    /\ UNCHANGED <<read_req, read_pc, merged_ranges, read_result>>
    /\ UNCHANGED <<scatter_vars, join_vars, copy_vars, aux_vars>>

\* Variant: the slice is taken at the start of the merged data.
ColumnData_FromStart(merged_range, merged_range_data, column_range) ==
    SubSeq(merged_range_data, 1, column_range.end - column_range.start)

\* merge_io_read, lines 136-138: the bytes of a raw range within the data of
\* its merged range.
ColumnData(merged_range, merged_range_data, column_range) ==
    LET start == column_range.start - merged_range.start
        end == column_range.end - merged_range.start
    IN  SubSeq(merged_range_data, start + 1, end)

\* merge_io_read, lines 120-133: the data read for merged range index idx,
\* searched among the results.
FindData(results, idx) ==
    LET found == {k \in 1 .. Len(results) : results[k].index = idx}
    IN  IF found = {} THEN [found |-> FALSE, chunk |-> <<>>]
        ELSE [found |-> TRUE,
              chunk |-> results[CHOOSE k \in found : \A l \in found : k <= l].chunk]

\* Variant: a raw range without merged range or data gets an empty entry.
RangeEntry_EmptyWhenMissing(results, j) ==
    LET got == RangeMergerGet(merged_ranges, RawRange(j))
        data == FindData(results, got.index)
    IN  [error |-> "None",
         entry |-> <<RawIndex(j),
                     IF got.found /\ data.found
                     THEN ColumnData(got.range, data.chunk, RawRange(j))
                     ELSE <<>> >>]

\* merge_io_read, lines 105-141: one entry of the result, or the error.
RangeEntry(results, j) ==
    LET got == RangeMergerGet(merged_ranges, RawRange(j))
    IN  IF ~got.found THEN [error |-> "Internal", entry |-> <<>>]
        ELSE LET data == FindData(results, got.index)
             IN  IF ~data.found THEN [error |-> "Internal", entry |-> <<>>]
                 ELSE [error |-> "None",
                       entry |-> <<RawIndex(j),
                                   ColumnData(got.range, data.chunk, RawRange(j))>>]

\* Variant: the reads that failed are left out of the results.
ReadFailed_Dropped == FALSE

\* merge_io_read, lines 95-101: collect::<Result<Vec<_>>>()? returns the error
\* of a read that failed.
ReadFailed == \E i \in DOMAIN chunks : chunks[i].state = "error"

\* merge_io_read, lines 100-101: the (index, data) pairs of the reads.
MergedRangeDataResults ==
    SelectSeq(chunks, LAMBDA c : c.state = "ok")

\* merge_io_read, lines 95-143: the reads are joined; any error fails the
\* call, else the entries are collected in the order of raw_ranges.
JoinAndCollect ==
    /\ read_pc = "reading"
    /\ \/ ReadFailed
       \/ \A i \in DOMAIN chunks : chunks[i].state # "pending"
    /\ read_pc' = "done"
    /\ read_result' =
           IF ReadFailed
           THEN [ok |-> FALSE, error |-> "Storage", range_data |-> <<>>]
           ELSE LET entries == [j \in 1 .. Len(read_req.raw_ranges) |->
                                   RangeEntry(MergedRangeDataResults, j)]
                IN  IF \E j \in DOMAIN entries : entries[j].error = "Internal"
                    THEN [ok |-> FALSE, error |-> "Internal", range_data |-> <<>>]
                    ELSE [ok |-> TRUE, error |-> "None",
                          range_data |-> [j \in DOMAIN entries |-> entries[j].entry]]
    /\ UNCHANGED <<read_req, merged_ranges, chunks, completed>>
    /\ UNCHANGED <<scatter_vars, join_vars, copy_vars, aux_vars>>

\* The column ids and ranges a call of merge_io_read may be given.
RawEntries == {<<id, r>> : id \in 0 .. MaxColumnId, r \in Ranges}

\* A call of merge_io_read: its raw ranges and the two settings it reads.
ReadInit ==
    /\ read_req \in [raw_ranges : SeqsUpTo(RawEntries, MaxRanges),
                     max_storage_io_requests_merge_gap : 0 .. MaxGap,
                     max_storage_io_requests_page_size : 1 .. MaxPage]
    /\ read_pc = "start"
    /\ merged_ranges = <<>>
    /\ chunks = <<>>
    /\ completed = <<>>
    /\ read_result = [ok |-> FALSE, error |-> "None", range_data |-> <<>>]

ReadNext ==
    \/ MergeAndSpawn
    \/ \E i \in DOMAIN chunks : ReadRangeOk(i)
    \/ \E i \in DOMAIN chunks : ReadRangeErr(i)
    \/ JoinAndCollect

InitRead == ReadInit /\ ScatterIdle /\ JoinIdle /\ CopyIdle /\ AuxIdle

SpecRead == InitRead /\ [][ReadNext]_vars

\* The result of the reads of the merged ranges in kept: (index, data) pairs
\* in the order of merged_ranges.
RECURSIVE ResultsOf(_, _, _)
ResultsOf(merged, kept, i) ==
    IF i > Len(merged) THEN <<>>
    ELSE (IF i \in kept
          THEN <<[state |-> "ok", index |-> i - 1,
                  chunk |-> range_read(merged[i].start, merged[i].end)]>>
          ELSE <<>>)
             \o ResultsOf(merged, kept, i + 1)

\* The loop of merge_io_read, lines 104-143, on its own: it is handed the raw
\* ranges, whatever merged ranges a RangeMerger may hold and whatever results
\* the reads may have left, with or without the data of each merged range.
CollectInit ==
    /\ read_req \in [raw_ranges : SeqsUpTo(RawEntries, MaxRanges),
                     max_storage_io_requests_merge_gap : {0},
                     max_storage_io_requests_page_size : {1}]
    /\ read_pc = "reading"
    /\ merged_ranges \in SeqsUpTo(Ranges, MaxRanges)
    /\ \E kept \in SUBSET (1 .. Len(merged_ranges)) :
          chunks = ResultsOf(merged_ranges, kept, 1)
    /\ completed = <<>>
    /\ read_result = [ok |-> FALSE, error |-> "None", range_data |-> <<>>]

CollectNext == JoinAndCollect

InitCollect == CollectInit /\ ScatterIdle /\ JoinIdle /\ CopyIdle /\ AuxIdle

SpecCollect == InitCollect /\ [][CollectNext]_vars

\* ------------------------------------------------ Fuse8Bloom: the machine
BloomInit ==
    /\ filter = Fuse8BloomCreate
    /\ filter_pc = "adding"
    /\ filter_added = <<>>
    /\ filter_query = NoQuery

BloomNext ==
    \/ \E key \in BloomKeys : add_key(key)
    \/ \E keys \in SeqsUpTo(BloomKeys, MaxBloomKeys) : add_keys(keys)
    \/ build
    \/ \E key \in BloomKeys : Contains(key)

InitBloom ==
    /\ BloomInit /\ ScatterIdle /\ JoinIdle /\ CopyIdle /\ ReadIdle
    /\ HashIdle /\ IndexIdle /\ MoreIdle

SpecBloom == InitBloom /\ [][BloomNext]_vars

\* --------------------------------------------------- siphash: the machine
HashInit ==
    /\ hash_case \in [type : HashTypes,
                      values : SeqsUpTo(HashValues, MaxHashRows) \ {<<>>}]
    /\ hash_pc = "start"
    /\ hash_result = <<>>

HashNext == SipHashEval

InitHash ==
    /\ HashInit /\ ScatterIdle /\ JoinIdle /\ CopyIdle /\ ReadIdle
    /\ BloomIdle /\ IndexIdle /\ MoreIdle

SpecHash == InitHash /\ [][HashNext]_vars

\* ---------------------------------- scatter indices of one batch: the machine
\* Partition counts on both sides of what 8 bits can index.
WidePartitionCounts == {1, 2, 3, 255, 256, 257, 350, 512}
WideKeys == 0 .. MaxWideKey

\* The operator as new() leaves it, for a wide range of partition counts.
ScatterWide ==
    /\ num_partitions \in WidePartitionCounts
    /\ num_processors = 1
    /\ is_initialized = FALSE
    /\ input_port = PortCreate
    /\ output_ports = [c \in Channels |-> PortCreate]
    /\ input_data_blocks = <<>>
    /\ output_data_blocks = [c \in Channels |-> <<>>]
    /\ pc = "idle"
    /\ last_call = [ret |-> "None",
                    obs |-> [initialized |-> FALSE, out_finished |-> {},
                             out_can_push |-> {}, queued |-> {},
                             in_has_data |-> FALSE, in_finished |-> FALSE,
                             buffered |-> FALSE],
                    pushed |-> {}, pulled |-> FALSE, effect |-> FALSE]
    /\ sent = 0
    /\ pulled_rows = 0
    /\ pushed_rows = 0
    /\ pushed_ids = [c \in Channels |-> <<>>]
    /\ delivered_ids = [c \in Channels |-> <<>>]
    /\ placed = {}
    /\ consumer_finished = {}
    /\ errors_raised = <<>>
    /\ reported = 0

IndexInit ==
    /\ index_rows \in SeqsUpTo(WideKeys, MaxRows) \ {<<>>}
    /\ index_pc = "start"
    /\ index_result = NoIndices

IndexNext == ComputeIndices

InitIndex ==
    /\ IndexInit /\ ScatterWide /\ JoinIdle /\ CopyIdle /\ ReadIdle
    /\ BloomIdle /\ HashIdle /\ MoreIdle

SpecIndex == InitIndex /\ [][IndexNext]_vars

\* ------------------------------------------------- scatter: properties
RECURSIVE QueueRows(_)
QueueRows(q) == IF q = <<>> THEN 0 ELSE BlockRows(Head(q)) + QueueRows(Tail(q))

RECURSIVE QueuedRowsOf(_)
\* Rows waiting in the pending queues of the channels of S.
QueuedRowsOf(S) ==
    IF S = {} THEN 0
    ELSE LET c == CHOOSE x \in S : TRUE
         IN  QueueRows(output_data_blocks[c]) + QueuedRowsOf(S \ {c})

AllPortsFinished ==
    /\ is_finished(input_port)
    /\ \A c \in Channels : is_finished(output_ports[c])

StrictlyIncreasing(ids) ==
    \A i \in 1 .. Len(ids), j \in 1 .. Len(ids) : i < j => ids[i] < ids[j]

IsPrefix(a, b) ==
    /\ Len(a) <= Len(b)
    /\ \A i \in 1 .. Len(a) : a[i] = b[i]

PartitionSet(block) == {block.parts[j].partition_id : j \in 1 .. Len(block.parts)}

Last(q) == q[Len(q)]

\* A step of process() that takes a batch from input_data_blocks.
ProcessStep == pc = "process" /\ pc' = "event" /\ input_data_blocks # <<>>

\* C1 as stated: when event() has returned Finished, the rows pushed to the
\* output ports, summed over all channels, equal the rows pulled from the
\* input port.
C1_Conservation_Original ==
    last_call.ret = "Finished" => pushed_rows = pulled_rows

\* C1 (amended): when event() has returned Finished, the rows pulled equal the
\* rows pushed plus the rows left in the queues of the channels whose consumer
\* finished the port; with no such channel, pushed rows equal pulled rows.
C1_Conservation ==
    last_call.ret = "Finished" =>
        /\ pulled_rows = pushed_rows + QueuedRowsOf(consumer_finished)
        /\ consumer_finished = {} => pushed_rows = pulled_rows

C1_Witness ==
    /\ last_call.ret = "Finished"
    /\ consumer_finished # {}
    /\ consumer_finished # Channels
    /\ pushed_rows > 0
    /\ QueuedRowsOf(consumer_finished) > 0

\* C2: any two rows with equal key values were placed in the same logical
\* partition and the same output channel, within one batch and across batches.
C2_EqualKeysSamePartition ==
    \A t1 \in placed, t2 \in placed :
        t1[1] = t2[1] => (t1[2] = t2[2] /\ t1[3] = t2[3])

\* Two batches holding the same key (twice in the first) wait in one queue, and
\* another key went to another partition.
C2_Witness ==
    /\ Cardinality({t[2] : t \in placed}) >= 2
    /\ \E c \in Channels, k \in Keys :
          /\ Len(output_data_blocks[c]) = 2
          /\ \E j \in 1 .. Len(output_data_blocks[c][1].parts) :
                output_data_blocks[c][1].parts[j].rows = <<k, k>>
          /\ \E j \in 1 .. Len(output_data_blocks[c][2].parts) :
                \E i \in 1 .. Len(output_data_blocks[c][2].parts[j].rows) :
                    output_data_blocks[c][2].parts[j].rows[i] = k

\* One batch per channel, partition p in the batch of channel p % M only.
RoundRobin ==
    \A c \in Channels :
        /\ Len(output_data_blocks'[c]) = Len(output_data_blocks[c]) + 1
        /\ PartitionSet(Last(output_data_blocks'[c])) =
               {q \in Partitions : q % num_processors = c}
        /\ Len(Last(output_data_blocks'[c]).parts) =
               Cardinality({q \in Partitions : q % num_processors = c})

\* C3 as stated: each processed batch enqueues one batch per channel, partition
\* p is carried by channel p % M only, and every channel's partition set is
\* non-empty.
C3_RoundRobin_Original ==
    [][ProcessStep =>
          /\ RoundRobin
          /\ \A c \in Channels :
                PartitionSet(Last(output_data_blocks'[c])) # {}]_vars

\* C3 (amended): each processed batch enqueues one batch per channel, partition
\* p is carried by channel p % M only (disjoint sets covering 0..K-1), and the
\* set of channel c is non-empty exactly when c < K.
C3_RoundRobin ==
    [][ProcessStep =>
          /\ RoundRobin
          /\ \A c \in Channels :
                (PartitionSet(Last(output_data_blocks'[c])) # {}) <=>
                    (c < num_partitions)]_vars

\* K = 3, M = 2: channel 0 holds a batch carrying partitions 0 and 2.
C3_Witness ==
    /\ num_partitions = 3
    /\ num_processors = 2
    /\ output_data_blocks[0] # <<>>
    /\ PartitionSet(output_data_blocks[0][1]) = {0, 2}
    /\ BlockRows(output_data_blocks[0][1]) > 0

\* C4: event() pushes only to ports that are not finished and can_push(),
\* no port ever holds more than one batch, and event() pulls only when the
\* input port has_data().
C4_PortContract ==
    /\ last_call.pushed \subseteq
           (last_call.obs.out_can_push \ last_call.obs.out_finished)
    /\ last_call.pulled => last_call.obs.in_has_data
    /\ \A c \in Channels : Len(output_ports[c].data) <= 1
    /\ Len(input_port.data) <= 1

C4_Witness ==
    /\ Cardinality(last_call.pushed) = 2
    /\ pulled_rows > 0

\* C5: on every channel the batches pushed derive from input batches in the
\* order these were pulled, and they are delivered in the order pushed.
C5_Order ==
    \A c \in Channels :
        /\ StrictlyIncreasing(pushed_ids[c])
        /\ IsPrefix(delivered_ids[c], pushed_ids[c])

C5_Witness ==
    \E c \in Channels : delivered_ids[c] = <<1, 2>>

\* C6: event() returns Finished only when every output port was finished, or
\* the input port was finished and no unfinished port had a queued batch and no
\* pulled batch was waiting to be processed.
C6_FinishedOnlyWhenDrained ==
    last_call.ret = "Finished" =>
        \/ last_call.obs.out_finished = Channels
        \/ /\ last_call.obs.in_finished
           /\ last_call.obs.queued \subseteq last_call.obs.out_finished
           /\ ~last_call.obs.buffered

C6_Witness ==
    /\ last_call.ret = "Finished"
    /\ last_call.obs.out_finished = {}
    /\ pushed_rows > 0

\* C7: once event() has returned Finished every port is finished, and every
\* later call returns Finished again and neither pushes nor pulls.
C7_FinishedForGood ==
    /\ [](last_call.ret = "Finished" => AllPortsFinished)
    /\ [][last_call.ret = "Finished" =>
             /\ last_call'.ret = "Finished"
             /\ last_call'.pushed = {}
             /\ ~last_call'.pulled
             /\ pushed_rows' = pushed_rows
             /\ pulled_rows' = pulled_rows
             /\ AllPortsFinished']_vars

\* A second call after Finished: it saw every port finished although no
\* consumer had finished any.
C7_Witness ==
    /\ last_call.ret = "Finished"
    /\ consumer_finished = {}
    /\ last_call.obs.out_finished = Channels
    /\ last_call.obs.in_finished
    /\ pushed_rows > 0

\* Input finished and drained, every unfinished output ready and its queue empty.
InputDoneAndFlushed(obs) ==
    /\ obs.in_finished
    /\ ~obs.in_has_data
    /\ (Channels \ obs.out_finished) \subseteq obs.out_can_push
    /\ obs.queued \subseteq obs.out_finished

\* C8 as stated: a call of event() that finds all output ports finished returns
\* Finished and finishes the input port, even with batches buffered; a call
\* that finds the input finished and the queues flushed returns Finished and
\* finishes every output port.
C8_FinishBothWays_Original ==
    /\ (last_call.ret # "None" /\ last_call.obs.out_finished = Channels) =>
           (last_call.ret = "Finished" /\ is_finished(input_port))
    /\ (last_call.ret # "None" /\ InputDoneAndFlushed(last_call.obs)) =>
           (last_call.ret = "Finished" /\ AllPortsFinished)

\* C8 (amended): the same for every call of event() but the first, which only
\* initializes; and with the input finished, event() does not return Finished
\* while an unfinished port still has a queued batch.
C8_FinishBothWays ==
    /\ (last_call.obs.initialized /\ last_call.obs.out_finished = Channels) =>
           (last_call.ret = "Finished" /\ is_finished(input_port)
                /\ last_call.pushed = {})
    /\ (last_call.obs.initialized /\ InputDoneAndFlushed(last_call.obs)) =>
           (last_call.ret = "Finished" /\ AllPortsFinished)
    /\ (last_call.obs.initialized /\ last_call.obs.in_finished
            /\ last_call.obs.out_finished # Channels
            /\ ~(last_call.obs.queued \subseteq last_call.obs.out_finished)) =>
           last_call.ret = "NeedConsume"

\* All outputs were finished by their consumers mid-batch: batches queued and
\* rows pulled but not pushed.
C8_Witness ==
    /\ last_call.ret = "Finished"
    /\ last_call.obs.initialized
    /\ consumer_finished = Channels
    /\ last_call.obs.queued # {}
    /\ ~last_call.obs.in_finished
    /\ pulled_rows > pushed_rows

\* The documented external conditions a call can be blocked on.
BlockedOnExternal(call) ==
    \/ /\ call.ret = "NeedData"
       /\ ~call.obs.in_has_data
       /\ ~call.obs.in_finished
    \/ /\ call.ret = "NeedConsume"
       /\ (Channels \ call.obs.out_finished) \ call.obs.out_can_push # {}

\* C9: a call of event() that returns a non-terminal event and changes nothing
\* is blocked on an external condition: no input data and input not finished
\* (NeedData), or an unfinished output port that cannot be pushed to
\* (NeedConsume).
C9_ForwardProgress ==
    (last_call.ret \in {"NeedData", "NeedConsume", "Sync"} /\ ~last_call.effect)
        => BlockedOnExternal(last_call)

C9_Witness ==
    /\ last_call.ret = "NeedConsume"
    /\ ~last_call.effect
    /\ last_call.obs.in_finished
    /\ last_call.obs.queued # {}

\* ----------------------------------------------- hash join: properties
BuildWorkers == DOMAIN build_sinks

\* A build worker that has arrived at the build barrier.
ArrivedAtBuildBarrier(w) ==
    build_sinks[w].pc \in {"waiting", "passed", "restore_waiting", "done"}

\* A build worker that is past the build barrier.
PastBuildBarrier(w) ==
    build_sinks[w].pc \in {"passed", "restore_waiting", "done"}

\* The build workers whose row is among rows.
WorkersOf(rows) == {r[1] : r \in rows}

\* C10: no build worker is past the build barrier unless every attached build
\* worker has arrived at it, and a probe worker reads the hash table only once
\* the state is Built, when it holds the rows of every build worker (those
\* that were spilled excepted).
C10_BarrierSafety ==
    /\ \A w \in BuildWorkers :
          PastBuildBarrier(w) => \A v \in BuildWorkers : ArrivedAtBuildBarrier(v)
    /\ \A p \in DOMAIN probe_transforms :
          (probe_transforms[p].pc = "probing" /\ restored = <<>>) =>
              /\ phase # "Building"
              /\ WorkersOf(probe_transforms[p].saw \cup spilled_rows) = BuildWorkers
              /\ probe_transforms[p].saw \cap spilled_rows = {}
              /\ \A v \in BuildWorkers : ArrivedAtBuildBarrier(v)

\* Three build workers; a probe worker reads the table while another build
\* worker has not yet been woken from the barrier.
C10_Witness ==
    /\ Len(build_sinks) = 3
    /\ \E p \in DOMAIN probe_transforms : probe_transforms[p].pc = "probing"
    /\ \E w \in BuildWorkers : build_sinks[w].pc = "waiting"

\* The arrivals a barrier instance has counted since it was created.
BarrierArrivals(h) == barriers[h].generation * barriers[h].n + barriers[h].arrived

\* The build workers that have arrived at the build-side restore barrier.
ArrivedAtBuildRestore == {w \in BuildWorkers : build_sinks[w].pc \in {"restore_waiting", "done"}}

RECURSIVE ProbeArrivals(_)
\* The arrivals of the probe workers 1..n at the probe-side restore barrier.
ProbeArrivals(n) ==
    IF n = 0 THEN 0 ELSE probe_transforms[n].arrivals + ProbeArrivals(n - 1)

\* C11: the build barrier, the build-side restore barrier, the probe barrier
\* and the probe-side restore barrier of a join are four distinct instances,
\* and each instance counts the arrivals at it and no others.
C11_DistinctBarriers ==
    join_pc = "run" =>
        /\ build_state.barrier # build_state.restore_barrier
        /\ probe_state.barrier # probe_state.restore_barrier
        /\ Cardinality({build_state.barrier, build_state.restore_barrier,
                        probe_state.barrier, probe_state.restore_barrier}) = 4
        /\ BarrierArrivals(build_state.barrier) =
               Cardinality({w \in BuildWorkers : ArrivedAtBuildBarrier(w)})
        /\ BarrierArrivals(build_state.restore_barrier) =
               Cardinality(ArrivedAtBuildRestore)
        /\ BarrierArrivals(probe_state.restore_barrier) =
               ProbeArrivals(Len(probe_transforms))
        /\ BarrierArrivals(probe_state.barrier) = 0

\* Two build workers are past the build barrier, one of them has arrived at
\* the restore barrier, and a probe worker waits at its own restore barrier.
C11_Witness ==
    /\ join_pc = "run"
    /\ barriers[build_state.barrier].generation = 1
    /\ barriers[build_state.restore_barrier].arrived = 1
    /\ barriers[probe_state.restore_barrier].arrived = 1

\* The build barrier, the restore barrier and the spill coordinator are sized
\* by the number of attached build workers, and a barrier has opened exactly
\* when all of them have arrived at it.
BuildParticipantsMatch ==
    /\ barriers[build_state.barrier].n = Len(build_sinks)
    /\ barriers[build_state.restore_barrier].n = Len(build_sinks)
    /\ spill_coordinator.n = Len(build_sinks)
    /\ barriers[build_state.barrier].generation > 0
           <=> \A w \in BuildWorkers : ArrivedAtBuildBarrier(w)
    /\ barriers[build_state.restore_barrier].generation > 0
           <=> ArrivedAtBuildRestore = BuildWorkers

\* C12 as stated: in every hash-join configuration the build barrier, the
\* build-side restore barrier and the spill coordinator have as many
\* participants as TransformHashJoinBuild processors are attached.
C12_BuildParticipants_Original == join_pc = "run" => BuildParticipantsMatch

\* C12: in every hash-join configuration without a runtime filter the build
\* barrier, the build-side restore barrier and the spill coordinator have as
\* many participants as TransformHashJoinBuild processors are attached, and
\* each barrier opens exactly when all of them have arrived.
C12_BuildParticipants ==
    (join_pc = "run" /\ ~join.contain_runtime_filter) => BuildParticipantsMatch

\* Three build workers with a spill state: the restore barrier has opened
\* after the build barrier.
C12_Witness ==
    /\ join_pc = "run"
    /\ ~join.contain_runtime_filter
    /\ Len(build_sinks) = 3
    /\ barriers[build_state.restore_barrier].generation = 1

\* The restore rounds started so far on the probe side.
RestoreRounds == Len(restored) + Cardinality(restoring)

\* C13: the probe barrier and the probe-side restore barrier have as many
\* participants as TransformHashJoinProbe processors are attached, the probe
\* pipeline's output count; and a spilled partition is restored only when
\* every probe worker has arrived at the restore barrier for that round, so
\* that none is probing while the partition is restored.
C13_ProbeSwitchTogether ==
    join_pc = "run" =>
        /\ Len(probe_transforms) = join.probe_output_len
        /\ barriers[probe_state.barrier].n = Len(probe_transforms)
        /\ barriers[probe_state.restore_barrier].n = Len(probe_transforms)
        /\ \A p \in DOMAIN probe_transforms :
              /\ probe_transforms[p].arrivals >= RestoreRounds
              /\ restoring # {} =>
                     probe_transforms[p].pc \in
                         {"restore_waiting", "follower", "loading"}

\* Two probe workers: one restores a partition while the other has arrived
\* at the restore barrier and has not been woken yet.
C13_Witness ==
    /\ Len(probe_transforms) = 2
    /\ restoring # {}
    /\ \E p \in DOMAIN probe_transforms :
          probe_transforms[p].pc = "restore_waiting"

\* C14: the sets of in-memory, spilled and restoring partitions are disjoint
\* and cover every partition; a partition is restoring only while the leader
\* reads it back, one at a time; and whenever a worker probed a partition it
\* was in memory, neither spilled nor restoring.
C14_PartitionStates ==
    join_pc = "run" =>
        /\ in_memory \cup spilled \cup restoring = SpillPartitionIds
        /\ in_memory \cap spilled = {}
        /\ in_memory \cap restoring = {}
        /\ spilled \cap restoring = {}
        /\ restoring # {} =>
               /\ Cardinality(restoring) = 1
               /\ \E p \in DOMAIN probe_transforms :
                      probe_transforms[p].pc = "loading"
        /\ probed_in \subseteq {"in-memory"}

\* A partition was spilled and restored, another is still spilled, and a
\* worker has probed the restored one.
C14_Witness ==
    /\ restored # <<>>
    /\ spilled # {}
    /\ \E p \in DOMAIN probe_transforms :
          /\ probe_transforms[p].pc = "probing"
          /\ probe_transforms[p].arrivals > 0
    /\ \E x \in BagToSet(join_output) : x[1] \in spilled_rows

\* The join has run to its end: every probe worker is done.
JoinFinished ==
    /\ join_pc = "run"
    /\ probe_transforms # <<>>
    /\ \A p \in DOMAIN probe_transforms : probe_transforms[p].pc = "done"

\* The inner join of the build rows and the probe rows, computed at once.
ReferenceJoin ==
    {x \in (row_store \cup spilled_rows) \X probe_rows : x[1][2] = x[2][2]}

C16_FlagsFrame_Original ==
    join_pc = "run" =>
        /\ build_pipe.added = "add_sink"
        /\ Len(build_sinks) = output_len

\* C16: need_hold_hash_table only decides whether the build state is kept in
\* self.join_state and leaves the attached processors unchanged;
\* contain_runtime_filter also keeps the build state, and replaces the build
\* sinks by a duplication of the pipeline.
C16_FlagsFrame ==
    join_pc = "run" =>
        /\ ~join.contain_runtime_filter =>
               /\ build_pipe.added = "add_sink"
               /\ Len(build_sinks) = output_len
               /\ build_pipe.join_state = join.need_hold_hash_table
        /\ join.contain_runtime_filter =>
               /\ build_pipe.added = "duplicate"
               /\ Len(build_sinks) = 0
               /\ build_pipe.join_state

\* A plan with a runtime filter and without need_hold_hash_table, built.
C16_Witness ==
    /\ join_pc = "run"
    /\ join.contain_runtime_filter
    /\ ~join.need_hold_hash_table
    /\ build_pipe.added = "duplicate"

\* C17: an error met by the operator, an error batch pulled in event() or a
\* failed scatter in process(), is returned to the scheduler, which polls the
\* operator no more, finishes the input port and every output port, and
\* reports one top-level error; no error is reported without one being met.
C17_ErrorsPropagate ==
    /\ Len(errors_raised) <= 1
    /\ errors_raised # <<>> <=> pc \in {"failed", "aborted"}
    /\ pc = "aborted" => (AllPortsFinished /\ reported = 1)
    /\ pc # "aborted" => reported = 0

\* A scatter failed after rows of an earlier batch were pushed, and the
\* scheduler has aborted.
C17_Witness ==
    /\ pc = "aborted"
    /\ errors_raised = <<"process">>
    /\ pushed_rows > 0
    /\ reported = 1

\* C18: the on-finished callback of the copy pipeline receives at most one
\* signal, success exactly when the commit stage has completed and an error
\* otherwise; files are purged only after a success signal and with the purge
\* option set, and they are staged files of the plan.
C18_PurgeOnlyOnSuccess ==
    /\ Len(signals) <= 1
    /\ signals # <<>> <=> copy_pc = "finished"
    /\ \A i \in DOMAIN signals :
          /\ signals[i] \in {"None", "Some"}
          /\ signals[i] = "None" <=> committed
    /\ purged # {} =>
          /\ signals = <<"None">>
          /\ committed
          /\ copy_plan.purge
    /\ purged \subseteq copy_plan.files

\* The pipeline succeeded with the purge option set and one of two staged
\* files was removed.
C18_Witness ==
    /\ copy_pc = "finished"
    /\ signals = <<"None">>
    /\ Cardinality(copy_plan.files) = 2
    /\ Cardinality(purged) = 1

\* What reading every raw range on its own returns.
ReadEachRange ==
    [j \in 1 .. Len(read_req.raw_ranges) |->
        <<RawIndex(j), range_read(RawRange(j).start, RawRange(j).end)>>]

\* C19: when merge_io_read succeeds it returns one (index, bytes) entry per
\* entry of raw_ranges, in their order, each with the entry's column id and
\* the bytes of the object in the entry's range.
C19_MergedReadEquivalence ==
    (read_pc = "done" /\ read_result.ok) => read_result.range_data = ReadEachRange

\* Two raw ranges given in descending order, with a gap between them, were
\* read with one merged read.
C19_Witness ==
    /\ read_pc = "done"
    /\ read_result.ok
    /\ Len(read_req.raw_ranges) = 2
    /\ Len(merged_ranges) = 1
    /\ RawRange(2).end < RawRange(1).start
    /\ RawIndex(1) # RawIndex(2)

\* The raw ranges in the order the merger takes them.
SortedRaw == SortByStart([j \in 1 .. Len(read_req.raw_ranges) |-> RawRange(j)])

\* C20: of two read requests, the second is read with the first in one read
\* when the gap between them is smaller than the merge-gap setting and the
\* first is not larger than the page-size setting, and they are read
\* separately when the first is larger than the page-size setting.
C20_MergeRule ==
    (read_pc # "start" /\ Len(read_req.raw_ranges) = 2) =>
        LET first == SortedRaw[1]
            second == SortedRaw[2]
            gap == second.start - first.end
            size == first.end - first.start
        IN  /\ (gap < read_req.max_storage_io_requests_merge_gap
                    /\ size <= read_req.max_storage_io_requests_page_size)
                   => Len(merged_ranges) = 1
            /\ size > read_req.max_storage_io_requests_page_size
                   => Len(merged_ranges) = 2

\* Two requests one byte apart: the first is larger than the page size and
\* the gap is smaller than the merge gap, and they are read separately.
C20_Witness ==
    /\ read_pc = "reading"
    /\ Len(read_req.raw_ranges) = 2
    /\ SortedRaw[2].start - SortedRaw[1].end = 1
    /\ read_req.max_storage_io_requests_merge_gap = 2
    /\ SortedRaw[1].end - SortedRaw[1].start >
           read_req.max_storage_io_requests_page_size
    /\ Len(merged_ranges) = 2


\* ------------------------------------------------- Fuse8Bloom: properties
AddedKeys == {filter_added[i] : i \in DOMAIN filter_added}

\* C21: the Fuse8 bloom index has no false negatives: once keys were added
\* with add_key or add_keys and build succeeded, contains is true of every
\* added key, of whatever type and however many times it was added, and
\* every contains call on an added key answered true.
C21_NoFalseNegatives ==
    filter_pc = "built" =>
        /\ \A key \in AddedKeys : contains(filter, key)
        /\ (filter_query.asked /\ filter_query.key \in AddedKeys)
               => filter_query.answer

\* A built filter over keys of two types with two digests, one key added
\* more than once, asked about a key that was added.
C21_Witness ==
    /\ filter_pc = "built"
    /\ \E i, j \in DOMAIN filter_added :
           i # j /\ filter_added[i] = filter_added[j]
    /\ \E k1, k2 \in AddedKeys :
           k1.type # k2.type /\ KeyDigest(k1) # KeyDigest(k2)
    /\ filter_query.asked
    /\ filter_query.key \in AddedKeys
    /\ filter_query.answer


\* ----------------------------------------------------- siphash: properties
\* On the column [1, 2, 1] the model returns what the test of the type expects.
SipHashMatchesTests ==
    (hash_pc = "done" /\ hash_case.values = <<1, 2, 1>>)
        => hash_result = ExpectedOutput(hash_case.type)

KeyPartition(key, k) == AsU8(GroupHash(key) % k)

\* The triples a batch with these rows must add: one per row, fixed by its key.
PlacementOf(rows) ==
    {<<rows[i], KeyPartition(rows[i], num_partitions),
       KeyPartition(rows[i], num_partitions) % num_processors>> :
         i \in 1 .. Len(rows)}

\* C23: the partition (and channel) of a row is a function of its key and of
\* K only: every row ever scattered sits where that function puts its key,
\* and every process() step places the rows of its batch exactly there,
\* whatever was processed before, however the rows were batched and whatever
\* the state of the output ports.
C23_Stateless ==
    /\ [](\A t \in placed :
             /\ t[2] = KeyPartition(t[1], num_partitions)
             /\ t[3] = t[2] % num_processors)
    /\ [][ProcessStep =>
             UNION {PlacedBy(Last(output_data_blocks'[c]), c) : c \in Channels}
                 = PlacementOf(Head(input_data_blocks).rows)]_vars

\* A port finished early holds two batches with the same key, first alone and
\* then twice, while another port is still open.
C23_Witness ==
    \E c \in Channels, k \in Keys :
        /\ is_finished(output_ports[c])
        /\ \E other \in Channels : ~is_finished(output_ports[other])
        /\ Len(output_data_blocks[c]) = 2
        /\ \E j \in 1 .. Len(output_data_blocks[c][1].parts) :
              output_data_blocks[c][1].parts[j].rows = <<k>>
        /\ \E j \in 1 .. Len(output_data_blocks[c][2].parts) :
              output_data_blocks[c][2].parts[j].rows = <<k, k>>


\* ---------------------------------------- hash join: properties (continued)
\* The build barrier has opened at least once.
BuildBarrierOpened ==
    /\ join_pc = "run"
    /\ barriers[build_state.barrier].generation > 0

\* The position of a phase in Building, Built, Probing, Done.
PhaseRank(ph) ==
    CASE ph = "Building" -> 0
      [] ph = "Built" -> 1
      [] ph = "Probing" -> 2
      [] OTHER -> 3

\* C24: the shared join state is written during the build phase only: once
\* the build barrier has opened no step changes the row store or the hash
\* table, so probing only reads them; the join is in Building exactly until
\* the barrier opens, and its phase moves along Building, Built, Probing,
\* Done, one phase at a time and never back.
C24_ReadOnlyAfterBuild ==
    /\ [](join_pc = "run" => (phase = "Building" <=> ~BuildBarrierOpened))
    /\ [][/\ BuildBarrierOpened =>
                (row_store' = row_store /\ hash_table' = hash_table)
          /\ PhaseRank(phase) <= PhaseRank(phase')
          /\ PhaseRank(phase') <= PhaseRank(phase) + 1]_vars

\* A join of several build workers that spilled, restored and is Done, with
\* rows in the hash table and rows probed after a restore.
C24_Witness ==
    /\ phase = "Done"
    /\ Len(build_sinks) >= 2
    /\ restored # <<>>
    /\ hash_table # {}
    /\ WorkersOf(hash_table) # WorkersOf(spilled_rows)
    /\ BagCardinality(join_output) >= 2


\* ----------------------------------- scatter indices of one batch: properties
\* C25 as stated: for every K >= 1 and every row hash h, the index handed to
\* DataBlock::scatter for the row is h mod K, in 0..K-1, and the row lands in
\* block h mod K, also for K greater than 256.
C25_IndexIsHashModK ==
    index_pc = "done" =>
        \A i \in 1 .. Len(index_rows) :
            LET h == GroupHash(index_rows[i])
            IN  /\ index_result.indices[i] = h % num_partitions
                /\ index_result.indices[i] \in 0 .. (num_partitions - 1)
                /\ \E j \in 1 .. Len(index_result.scatter_blocks[h % num_partitions]) :
                       index_result.scatter_blocks[h % num_partitions][j]
                           = index_rows[i]

\* With at most 256 partitions the index is h mod K and the row lands there.
NarrowIndexHolds ==
    (index_pc = "done" /\ num_partitions <= 256) =>
        \A i \in 1 .. Len(index_rows) :
            index_result.indices[i] = GroupHash(index_rows[i]) % num_partitions

\* With more than 256 partitions the blocks from 256 on never receive a row.
HighPartitionsEmpty ==
    index_pc = "done" =>
        \A p \in 256 .. (num_partitions - 1) :
            index_result.scatter_blocks[p] = <<>>


\* ------------------------------------------- scatter: properties (continued)
\* The unfinished output ports a call of event() found unable to take a push.
BlockedAt(call) == (Channels \ call.obs.out_finished) \ call.obs.out_can_push

\* C26 as stated: a call of event() that finds an unfinished output port
\* unable to take a push, or that pushes a queued batch, returns NeedConsume
\* and does not pull from the input port.
C26_NeedConsume_Original ==
    (last_call.ret # "None"
        /\ (BlockedAt(last_call) # {} \/ last_call.pushed # {})) =>
        (last_call.ret = "NeedConsume" /\ ~last_call.pulled)

\* C26 (amended): the same for every call of event() but the first, which
\* returns NeedData; and no call, the first included, pulls from the input
\* port while an unfinished output port cannot take a push, whether or not
\* that port has a batch queued.
C26_NeedConsume ==
    /\ (last_call.obs.initialized
            /\ (BlockedAt(last_call) # {} \/ last_call.pushed # {})) =>
           (last_call.ret = "NeedConsume" /\ ~last_call.pulled)
    /\ (last_call.ret # "None" /\ ~last_call.obs.initialized) =>
           (last_call.ret = "NeedData" /\ ~last_call.pulled)
    /\ BlockedAt(last_call) # {} => ~last_call.pulled

\* An initialized call with input waiting and nothing queued for the one port
\* that is blocked: NeedConsume, nothing pushed, nothing pulled.
C26_Witness ==
    /\ last_call.obs.initialized
    /\ last_call.ret = "NeedConsume"
    /\ last_call.obs.in_has_data
    /\ last_call.pushed = {}
    /\ ~last_call.pulled
    /\ \E c \in BlockedAt(last_call) : c \notin last_call.obs.queued
    /\ has_data(input_port)


\* C27: with process() run after every Sync, the pending queue of every output
\* port that is not finished holds at most one batch and input_data_blocks
\* holds at most one batch, none between process() and the next pull; only
\* the queue of a finished port holds more.
C27_BoundedQueues ==
    /\ \A c \in Channels :
          ~is_finished(output_ports[c]) => Len(output_data_blocks[c]) <= 1
    /\ Len(input_data_blocks) <= 1
    /\ pc = "event" => input_data_blocks = <<>>

\* process() has run twice: a port finished by its consumer holds two batches
\* while another port, not finished, holds one.
C27_Witness ==
    /\ \E c \in consumer_finished : Len(output_data_blocks[c]) = 2
    /\ \E c \in Channels :
          /\ ~is_finished(output_ports[c])
          /\ Len(output_data_blocks[c]) = 1
    /\ pc = "event"
    /\ last_call.ret = "Sync"


\* C28: event() never pushes to a finished output port.  A call that finds
\* some but not all output ports finished serves the others as usual: it
\* pushes the queued batch of every unfinished port that can take it, and
\* with nothing to push, no port blocked and input waiting it pulls and
\* returns Sync.  What is queued for a finished port stays queued: no step
\* removes a batch from its queue or pushes one of its batches.
C28_FinishedPortsSkipped ==
    /\ [](/\ last_call.pushed \cap last_call.obs.out_finished = {}
          /\ (/\ last_call.obs.initialized
              /\ last_call.obs.out_finished # {}
              /\ last_call.obs.out_finished # Channels) =>
                 /\ last_call.pushed =
                        (last_call.obs.out_can_push \cap last_call.obs.queued)
                            \ last_call.obs.out_finished
                 /\ (/\ BlockedAt(last_call) = {}
                     /\ last_call.pushed = {}
                     /\ last_call.obs.in_has_data) =>
                        (last_call.pulled /\ last_call.ret \in {"Sync", "Error"}))
    /\ [][\A c \in Channels :
             is_finished(output_ports[c]) =>
                 /\ IsPrefix(output_data_blocks[c], output_data_blocks'[c])
                 /\ pushed_ids'[c] = pushed_ids[c]]_vars

\* One port was finished by its consumer and holds both batches unsent; the
\* other port, still open, has been pushed both.
C28_Witness ==
    \E c \in consumer_finished, o \in Channels :
        /\ ~is_finished(output_ports[o])
        /\ Len(output_data_blocks[c]) = 2
        /\ pushed_ids[c] = <<>>
        /\ Len(pushed_ids[o]) = 2
        /\ BlockRows(output_data_blocks[c][1]) > 0


\* C29: the first call of event() sets is_initialized, marks the input port
\* as needing data and returns NeedData, whatever the ports hold: the data and
\* the finished flag of the input port, every output port, every queue and
\* input_data_blocks are as before, nothing is pushed and nothing is pulled.
C29_FirstCallFrame ==
    /\ [](~last_call.obs.initialized =>
             /\ last_call.ret \in {"None", "NeedData"}
             /\ last_call.pushed = {}
             /\ ~last_call.pulled)
    /\ [][(~is_initialized /\ is_initialized') =>
             /\ last_call'.ret = "NeedData"
             /\ last_call'.obs = Observed
             /\ input_port' = set_need_data(input_port)
             /\ input_port'.data = input_port.data
             /\ input_port'.finished = input_port.finished
             /\ output_ports' = output_ports
             /\ output_data_blocks' = output_data_blocks
             /\ input_data_blocks' = input_data_blocks
             /\ pushed_rows' = pushed_rows
             /\ pulled_rows' = pulled_rows
             /\ pc' = "event"]_vars

\* The first call was made with every output port and the input port already
\* finished, and it left them alone.
C29_Witness ==
    /\ is_initialized
    /\ ~last_call.obs.initialized
    /\ last_call.ret = "NeedData"
    /\ last_call.obs.out_finished = Channels
    /\ last_call.obs.in_finished
    /\ num_processors = 2
    /\ input_port.need


\* C30 as stated: under fair scheduling, with an upstream that finishes the
\* input port after finitely many batches and consumers that pull what is
\* pushed or finish their port, event() eventually returns Finished.
C30_Terminates_Original == <>(last_call.ret = "Finished")

\* C30 (amended): under the same conditions event() eventually returns
\* Finished, unless a batch carries an error or cannot be scattered, in which
\* case event() or process() returns the error and the scheduler aborts, which
\* it does for no other reason;
\* process() runs only after a Sync and is followed by event(); and once
\* Finished was returned it is what event() returns from then on.
C30_Terminates ==
    /\ <>(last_call.ret = "Finished" \/ pc = "aborted")
    /\ [](pc = "aborted" => errors_raised # <<>>)
    /\ []((pc = "process") => (last_call.ret = "Sync"))
    /\ [][/\ pc = "process" => pc' \in {"process", "event", "failed"}
          /\ last_call.ret = "Finished" => last_call'.ret = "Finished"]_vars

\* Finished was returned after both batches were pulled and scattered, rows
\* were pushed, and one consumer had finished its port on the way.
C30_Witness ==
    /\ last_call.ret = "Finished"
    /\ sent = MaxBatches
    /\ errors_raised = <<>>
    /\ pushed_rows > 0
    /\ consumer_finished # {}
    /\ consumer_finished # Channels
    /\ input_data_blocks = <<>>

\* ------------------------------------------------------------------ C31
\* C31: once build_join has run, spilling is enabled uniformly: every build
\* sink and every probe transform carries a spill state exactly when the join
\* spilling threshold is not 0, and all build sinks hold the same spill
\* coordinator and the same build state, the one build_join created.
C31_UniformSpilling ==
    join_pc = "run" =>
        /\ \A w \in DOMAIN build_sinks :
              build_sinks[w].spill_state = (join.join_spilling_threshold # 0)
        /\ \A p \in DOMAIN probe_transforms :
              probe_transforms[p].spill_state
                  = (join.join_spilling_threshold # 0)
        /\ \A w1, w2 \in DOMAIN build_sinks :
              /\ build_sinks[w1].spill_coordinator
                     = build_sinks[w2].spill_coordinator
              /\ build_sinks[w1].build_state = build_sinks[w2].build_state
        /\ \A w \in DOMAIN build_sinks : build_sinks[w].build_state = build_state

\* Several build sinks and several probe transforms, all with a spill state.
C31_Witness ==
    /\ join_pc = "run"
    /\ Len(build_sinks) >= 2
    /\ Len(probe_transforms) >= 2
    /\ join.join_spilling_threshold # 0
    /\ build_sinks[1].spill_state
    /\ build_sinks[2].spill_coordinator = 1
    /\ probe_transforms[2].spill_state

\* ------------------------------------------------------------------ C32
\* C32: after build_join on a builder that held nothing before, join_state is
\* set exactly when contain_runtime_filter or need_hold_hash_table is set, the
\* index is set only with contain_runtime_filter and is then the position of
\* the build-side main pipeline among the linked pipelines, the projected
\* probe fields are recorded exactly when need_hold_hash_table is set, and the
\* linked pipelines are those linked before, then the build-side main
\* pipeline, then each of its source pipelines.
C32_BuilderRetains ==
    join_pc = "run" =>
        /\ build_pipe.join_state
               = (join.contain_runtime_filter \/ join.need_hold_hash_table)
        /\ index.some => join.contain_runtime_filter
        /\ index.some => /\ index.value + 1 \in DOMAIN pipelines
                         /\ pipelines[index.value + 1] = "build_main"
        /\ probe_data_fields.some = join.need_hold_hash_table
        /\ probe_data_fields.some =>
              /\ Len(probe_data_fields.fields)
                     = Cardinality(builder_in.probe_projections)
              /\ \A i \in DOMAIN builder_in.probe_schema :
                    (i - 1 \in builder_in.probe_projections)
                        <=> (\E j \in DOMAIN probe_data_fields.fields :
                                probe_data_fields.fields[j]
                                    = builder_in.probe_schema[i])
        /\ Len(pipelines)
               = builder_in.pipelines_before + 1 + builder_in.sources_pipelines
        /\ \A i \in DOMAIN pipelines :
              pipelines[i] =
                  IF i <= builder_in.pipelines_before THEN "earlier"
                  ELSE IF i = builder_in.pipelines_before + 1 THEN "build_main"
                  ELSE "build_source"

\* Both flags set, on a builder with pipelines linked before and a build side
\* with source pipelines, and one of two probe fields projected.
C32_Witness ==
    /\ join_pc = "run"
    /\ join.contain_runtime_filter
    /\ join.need_hold_hash_table
    /\ build_pipe.join_state
    /\ index = [some |-> TRUE, value |-> MaxLinked]
    /\ builder_in.sources_pipelines = MaxSources
    /\ probe_data_fields = [some |-> TRUE, fields |-> <<"b">>]

\* ------------------------------------------------------------------ C33
\* The merged ranges that hold raw range j, and the two ways the loop of
\* merge_io_read can miss its data.
Covering(j) ==
    {i \in DOMAIN merged_ranges :
        /\ merged_ranges[i].start <= RawRange(j).start
        /\ RawRange(j).end <= merged_ranges[i].end}

Uncovered(j) == Covering(j) = {}

DataMissing(j) ==
    /\ Covering(j) # {}
    /\ LET first == CHOOSE i \in Covering(j) : \A k \in Covering(j) : i <= k
       IN  ~\E c \in DOMAIN chunks :
               chunks[c].state = "ok" /\ chunks[c].index = first - 1

\* C33: when no read failed and some raw range is held by no merged range, or
\* the data of its merged range is not among the read results, merge_io_read
\* returns an Internal error and no range data at all; it returns an Internal
\* error in no other case.
C33_InternalError ==
    (read_pc = "done" /\ ~ReadFailed) =>
        /\ (\E j \in DOMAIN read_req.raw_ranges : Uncovered(j) \/ DataMissing(j))
               => read_result = [ok |-> FALSE, error |-> "Internal",
                                 range_data |-> <<>>]
        /\ read_result.error = "Internal"
               => \E j \in DOMAIN read_req.raw_ranges :
                      Uncovered(j) \/ DataMissing(j)

\* The first raw range has its data, the data of the second one's merged
\* range is missing: the call fails and the first entry is not returned.
C33_Witness ==
    /\ read_pc = "done"
    /\ Len(read_req.raw_ranges) = 2
    /\ ~Uncovered(1)
    /\ ~DataMissing(1)
    /\ DataMissing(2)
    /\ read_result.error = "Internal"
    /\ read_result.range_data = <<>>

\* ------------------------------------------------------------------ C34
\* C34: when the read of any merged range fails, merge_io_read fails with that
\* storage error and returns no range data, whatever the other reads
\* returned; and no merged range is read a second time.
C34_ReadFailureFailsAll ==
    /\ (read_pc = "done" /\ \E i \in DOMAIN chunks : chunks[i].state = "error")
           => read_result = [ok |-> FALSE, error |-> "Storage",
                             range_data |-> <<>>]
    /\ \A m, n \in DOMAIN completed : completed[m] = completed[n] => m = n
    /\ \A i \in DOMAIN chunks :
          chunks[i].state # "pending" <=> \E m \in DOMAIN completed : completed[m] = i

\* Of two merged reads the first succeeded and the second failed.
C34_Witness ==
    /\ read_pc = "done"
    /\ Len(chunks) = 2
    /\ chunks[1].state = "ok"
    /\ chunks[2].state = "error"
    /\ completed = <<1, 2>>
    /\ read_result = [ok |-> FALSE, error |-> "Storage", range_data |-> <<>>]

\* ------------------------------------------------------------------ C35
\* The entry of raw range j taken from the read tagged with the index of the
\* merged range that holds it.
TaggedEntry(j) ==
    LET got == RangeMergerGet(merged_ranges, RawRange(j))
        c == CHOOSE c \in DOMAIN chunks : chunks[c].index = got.index
    IN  <<RawIndex(j), ColumnData(got.range, chunks[c].chunk, RawRange(j))>>

\* C35: whatever the order in which the merged reads complete, each completed
\* read carries the index of its merged range and the bytes of that range, and
\* a successful merge_io_read returns for each raw range the bytes taken from
\* the read tagged with the index of the merged range that holds it.
C35_OrderIndependent ==
    /\ \A i \in DOMAIN chunks :
          chunks[i].state = "ok" =>
              /\ chunks[i].index = i - 1
              /\ chunks[i].chunk
                     = range_read(merged_ranges[i].start, merged_ranges[i].end)
    /\ (read_pc = "done" /\ ~ReadFailed) =>
          /\ read_result.ok
          /\ read_result.range_data
                 = [j \in DOMAIN read_req.raw_ranges |-> TaggedEntry(j)]

\* Two merged reads completed in the reverse of the order they were spawned
\* in, and the call succeeded.
C35_Witness ==
    /\ read_pc = "done"
    /\ read_result.ok
    /\ Len(merged_ranges) = 2
    /\ completed = <<2, 1>>
    /\ Len(read_result.range_data) = 2

\* ------------------------------------------------------------------ C36
\* The paths of the copied files of the call.
CopiedPaths ==
    {upsert_case.copied_files[i].path : i \in DOMAIN upsert_case.copied_files}

\* short is etag cut to at most 7 bytes.
ShortenedTo(etag, short) ==
    /\ short.some = etag.some
    /\ Len(short.v) <= 7
    /\ Len(short.v) <= Len(etag.v)
    /\ \A k \in DOMAIN short.v : short.v[k] = etag.v[k]
    /\ Len(etag.v) <= 7 => short.v = etag.v
    /\ Len(etag.v) > 7 => Len(short.v) = 7

ArrivingSchema(i) ==
    IF i = 1 THEN append_plan.source_schema
    ELSE append_stages[i - 1].output_schema

\* C37 as stated: build_append_data_pipeline inserts a cast stage exactly when
\* the source schema differs from the required source schema of the plan, and
\* every stage is given as its input schema the schema of the batches that
\* the stage before it produces.
C37_SchemaChain ==
    append_pc = "done" =>
        /\ (\E i \in DOMAIN append_stages : append_stages[i].kind = "cast")
               <=> append_plan.source_schema # append_plan.required_source_schema
        /\ \A i \in DOMAIN append_stages :
              append_stages[i].input_schema = ArrivingSchema(i)

\* The chain is consistent whenever the cast stage and the constant-column
\* stage do not both occur.
ChainHoldsApartFromCastThenConsts ==
    (append_pc = "done"
        /\ (append_plan.source_schema = append_plan.required_source_schema
               \/ append_plan.values_consts = <<>>)) =>
        \A i \in DOMAIN append_stages :
            append_stages[i].input_schema = ArrivingSchema(i)

\* After a cast stage, the constant-column stage is told the schema of the
\* source, not the schema the cast produces.
ConstStageToldSourceSchema ==
    append_pc = "done" =>
        \A i \in DOMAIN append_stages :
            append_stages[i].kind = "add_const_columns"
                => append_stages[i].input_schema = append_plan.source_schema

\* ------------------------------------------------------------------ C38
\* The byte width of group column c of the call, and the widths added up.
ColumnSize(c) == numeric_byte_size(keys_case.group_columns[c].data_type)

RECURSIVE SumSizes(_)
SumSizes(S) ==
    IF S = {} THEN 0
    ELSE LET c == CHOOSE c \in S : TRUE IN ColumnSize(c) + SumSizes(S \ {c})

TotalWidth == SumSizes(DOMAIN keys_case.group_columns)

\* The offset of column c when the columns are laid out by decreasing byte
\* width, then by position.
LayoutOffset(c) ==
    SumSizes({d \in DOMAIN keys_case.group_columns :
                 \/ ColumnSize(d) > ColumnSize(c)
                 \/ ColumnSize(d) = ColumnSize(c) /\ d < c})

\* The key of row r, as bytes.
RowKey(r) ==
    SubSeq(group_keys, (r - 1) * keys_case.step + 1, r * keys_case.step)

\* Every column lies inside the key, each row's key holds the bytes of each
\* column at the column's offset and zero elsewhere, and two rows have equal
\* keys exactly when they are equal in all columns.
KeysLaidOut ==
    /\ \A c \in DOMAIN keys_case.group_columns :
          LayoutOffset(c) + ColumnSize(c) <= keys_case.step
    /\ \A r \in 1 .. keys_case.rows :
          /\ \A c \in DOMAIN keys_case.group_columns :
                \A b \in 1 .. ColumnSize(c) :
                    /\ LayoutOffset(c) + b <= keys_case.step
                    /\ RowKey(r)[LayoutOffset(c) + b]
                           = NativeBytes(keys_case.group_columns[c].values[r],
                                         ColumnSize(c))[b]
          /\ \A p \in (TotalWidth + 1) .. keys_case.step : RowKey(r)[p] = 0
    /\ \A r1, r2 \in 1 .. keys_case.rows :
          RowKey(r1) = RowKey(r2)
              <=> \A c \in DOMAIN keys_case.group_columns :
                      keys_case.group_columns[c].values[r1]
                          = keys_case.group_columns[c].values[r2]

\* C38 as stated: for every list of group columns and every key width,
\* build_keys returns keys in which every column is written at its offset
\* (columns by decreasing byte width, then by position), the byte ranges lie
\* inside the key's width, the other bytes are zero, and two rows have equal
\* keys exactly when they are equal in all group columns.
C38_KeyLayout ==
    /\ keys_pc # "crashed"
    /\ keys_pc \in {"built", "done", "panicked"} => KeysLaidOut

\* When the widths of the columns add up to no more than the key width, the
\* keys are laid out as C38 says.
LayoutHoldsWhenFits ==
    TotalWidth <= keys_case.step =>
        /\ keys_pc # "crashed"
        /\ keys_pc \in {"built", "done", "panicked"} => KeysLaidOut

\* ------------------------------------------------------------------ C39
\* C39 as stated: when the total width of the group columns fits the key
\* width, de_group_columns applied to the keys of build_keys returns the group
\* columns, in whatever order of byte widths the columns are listed.
C39_RoundTrip ==
    TotalWidth <= keys_case.step =>
        /\ keys_pc # "panicked"
        /\ keys_pc = "done" => de_columns = keys_case.group_columns

\* The keys round-trip when the columns are listed by decreasing byte width.
RoundTripWhenSorted ==
    (/\ TotalWidth <= keys_case.step
     /\ \A c, d \in DOMAIN keys_case.group_columns :
           c < d => ColumnSize(c) >= ColumnSize(d)) =>
        /\ keys_pc # "panicked"
        /\ keys_pc = "done" => de_columns = keys_case.group_columns

====
